---------------------------- MODULE Spec2Model ----------------------------
(***************************************************************************)
(* Kobon-N10-Solver: the geometric evaluation engine (src/src/geometry.py) *)
(* and the simulated-annealing optimizer (src/src/optimizer.py).           *)
(*                                                                         *)
(* Numbers.  The program computes in floating point; the model computes    *)
(* the same expressions in exact rational arithmetic.  A line coefficient  *)
(* is the integer X standing for the real X / One.  A point is a record    *)
(* [xn, yn, d] with d > 0 standing for (xn / d, yn / d).  The three        *)
(* tolerances of geometry.py are compared exactly, by their reciprocals.   *)
(* Rounding error of the floating-point operations is outside the model.   *)
(***************************************************************************)
EXTENDS Integers, Sequences, FiniteSets

(***************************************************************************)
(* Fixed-point unit and tolerances                                         *)
(***************************************************************************)

\* The integer that stands for the real 1.0 in a line coefficient
\* (a^2 + b^2 = 1 reads a*a + b*b = One*One).
One == 5

\* valid_mask = np.abs(w) > 1e-10, and 1e-10 = 1 / (100000 * 100000)
ParallelTolInvRoot == 100000

\* np.linalg.norm(v1 - v2) < 1e-6
VertexTolInv == 1000000

\* eps = 1e-9
SepEpsInv == 1000000000

\* norms < 1e-9, line[0] < -1e-9 (normalize_lines, normalize_single_line,
\* canonicalize)
NormTolInv == 1000000000

(***************************************************************************)
(* Bounds of the model                                                     *)
(***************************************************************************)

\* largest number of lines of a LineSet handed to KobonSolver
MaxN == 4

\* n_lines of the Optimizer (the program's default is 10)
NLines == 4

\* largest iteration budget handed to Optimizer.optimize
MaxIter == 2

\* the Gaussian draw perturbs a coefficient of one of the first NoisyLines lines
NoisyLines == 2

\* largest number of lines of a LineSet handed to the normalization functions
MaxNormN == 2

\* largest number of lines of a configuration a script persists
MaxSaveN == 3

\* largest number of runs of main (args.runs)
MaxRuns == 2

\* largest number of lines of a LineSet evaluated before and after normalize_lines
MaxScaleN == 3

\* largest number of lines of a LineSet before one more line is appended
MaxBaseN == 4

\* largest number of lines handed to graph_analyzer and to KobonSolver
MaxGraphN == 4

\* largest number of lines handed to symmetrize_lines
MaxPairN == 12

\* iterations of the loop of run_soft_symmetry
MaxSoftSteps == 3

\* iterations of the loop of SymmetricOptimizer.optimize
MaxForcedSteps == 3

\* the step, in units of 1 / One, by which the noise moves an offset c
OffsetStep == 16

(***************************************************************************)
(* Integer helpers                                                         *)
(***************************************************************************)

Abs(x) == IF x < 0 THEN -x ELSE x

Sgn(x) == IF x < 0 THEN -1 ELSE IF x > 0 THEN 1 ELSE 0

\* ceiling of x / y for x >= 0, y > 0
CeilDiv(x, y) == (x + y - 1) \div y

(***************************************************************************)
(* KobonSolver (geometry.py)                                               *)
(***************************************************************************)

\* self.n_lines = len(lines); a LineSet is a function 0..n-1 -> <<a, b, c>>
n_lines(lines) == Cardinality(DOMAIN lines)

\* x_homo = b1 * c2 - c1 * b2        (in units of 1 / One^2)
x_homo(l1, l2) == l1[2] * l2[3] - l1[3] * l2[2]

\* y_homo = c1 * a2 - a1 * c2        (in units of 1 / One^2)
y_homo(l1, l2) == l1[3] * l2[1] - l1[1] * l2[3]

\* a plausible slip: the second product of the determinant is dropped
w_dropped_term(l1, l2) == l1[1] * l2[2]

\* w = a1 * b2 - b1 * a2             (in units of 1 / One^2)
w(l1, l2) == l1[1] * l2[2] - l1[2] * l2[1]

\* np.abs(w) > 1e-10 for the real w = W / One^2:
\* |W| * 10^10 > One^2  <=>  |W| > floor(floor(One^2 / 10^5) / 10^5)
AboveParallelTol(W) ==
    Abs(W) > ((One * One) \div ParallelTolInvRoot) \div ParallelTolInvRoot

\* a plausible slip: np.abs is forgotten, w > 1e-10
valid_mask_no_abs(lines, i, j) ==
    IF i = j THEN FALSE
    ELSE w(lines[i], lines[j]) > ((One * One) \div ParallelTolInvRoot) \div ParallelTolInvRoot

\* a plausible slip: only the diagonal is masked, the test on w is forgotten
valid_mask_diagonal_only(lines, i, j) == i # j

\* valid_mask = np.abs(w) > 1e-10; valid_mask[idx, idx] = False
valid_mask(lines, i, j) ==
    IF i = j THEN FALSE ELSE AboveParallelTol(w(lines[i], lines[j]))

\* safe_w = np.where(valid_mask, w, 1.0); points = (x_homo, y_homo) / safe_w.
\* The quotient is kept as a fraction with a positive denominator: the real
\* 1.0 is One^2 in the units of w.
point(lines, i, j) ==
    LET W  == w(lines[i], lines[j])
        xh == x_homo(lines[i], lines[j])
        yh == y_homo(lines[i], lines[j])
    IN  IF valid_mask(lines, i, j)
        THEN [xn |-> xh * Sgn(W), yn |-> yh * Sgn(W), d |-> Abs(W)]
        ELSE [xn |-> xh, yn |-> yh, d |-> One * One]

\* compute_intersections(): the (N, N) table of points and the (N, N) mask
compute_intersections(lines) ==
    [points |-> [p \in (DOMAIN lines) \X (DOMAIN lines) |-> point(lines, p[1], p[2])],
     valid_mask |-> [p \in (DOMAIN lines) \X (DOMAIN lines) |-> valid_mask(lines, p[1], p[2])]]

\* a plausible slip: the comparison is reversed, norm > 1e-6
TooClose_reversed(p, q) ==
    LET dx == p.xn * q.d - q.xn * p.d
        dy == p.yn * q.d - q.yn * p.d
        D  == p.d * q.d
    IN  dx * dx + dy * dy > ((D * D) \div VertexTolInv) \div VertexTolInv

\* np.linalg.norm(p - q) < 1e-6:  |p - q|^2 * 10^12 < 1, that is
\* num < D^2 / 10^12 with |p - q|^2 = num / D^2
TooClose(p, q) ==
    LET dx == p.xn * q.d - q.xn * p.d
        dy == p.yn * q.d - q.yn * p.d
        D  == p.d * q.d
    IN  dx * dx + dy * dy < CeilDiv(CeilDiv(D * D, VertexTolInv), VertexTolInv)

\* evals[m, v] = a * x + b * y + c of a line at a vertex, the fraction
\* n / d with d > 0 (in real units)
Eval(line, v) ==
    [n |-> line[1] * v.xn + line[2] * v.yn + line[3] * v.d, d |-> One * v.d]

FracLess(p, q) == p.n * q.d < q.n * p.d

\* np.min / np.max over the three vertices
Min3(e1, e2, e3) ==
    LET m == IF FracLess(e2, e1) THEN e2 ELSE e1
    IN  IF FracLess(e3, m) THEN e3 ELSE m

Max3(e1, e2, e3) ==
    LET m == IF FracLess(e1, e2) THEN e2 ELSE e1
    IN  IF FracLess(m, e3) THEN e3 ELSE m

\* e < -eps  and  e > eps  for eps = 1e-9
BelowNegEps(e) == -e.n > e.d \div SepEpsInv

AboveEps(e) == e.n > e.d \div SepEpsInv

\* a plausible slip: a line counts as cutting when the values merely differ
\* in sign or touch (no tolerance band, non-strict)
cuts_no_tolerance(line, v1, v2, v3) ==
    LET e1 == Eval(line, v1)
        e2 == Eval(line, v2)
        e3 == Eval(line, v3)
    IN  Min3(e1, e2, e3).n <= 0 /\ Max3(e1, e2, e3).n > 0

\* cuts = (min_vals < -eps) & (max_vals > eps)
cuts(line, v1, v2, v3) ==
    LET e1 == Eval(line, v1)
        e2 == Eval(line, v2)
        e3 == Eval(line, v3)
    IN  BelowNegEps(Min3(e1, e2, e3)) /\ AboveEps(Max3(e1, e2, e3))

\* a plausible slip: with no other line the function returns False
is_valid_triangle_empty_false(lines, i, j, k, v1, v2, v3) ==
    LET other_lines == DOMAIN lines \ {i, j, k}
    IN  IF other_lines = {} THEN FALSE
        ELSE ~ \E m \in other_lines : cuts(lines[m], v1, v2, v3)

\* a plausible slip: np.all for np.any, a triangle is rejected only when
\* every other line cuts it
is_valid_triangle_all_cut(lines, i, j, k, v1, v2, v3) ==
    LET other_lines == DOMAIN lines \ {i, j, k}
    IN  IF other_lines = {} THEN TRUE
        ELSE ~ \A m \in other_lines : cuts(lines[m], v1, v2, v3)

\* is_valid_triangle(i, j, k, v1, v2, v3): no line other than i, j, k cuts
is_valid_triangle(lines, i, j, k, v1, v2, v3) ==
    LET other_lines == DOMAIN lines \ {i, j, k}
    IN  IF other_lines = {} THEN TRUE
        ELSE ~ \E m \in other_lines : cuts(lines[m], v1, v2, v3)

\* a plausible slip: sorted(..., reverse=True)
Sorted3_reversed(i, j, k) ==
    LET lo == IF i <= j /\ i <= k THEN i ELSE IF j <= k THEN j ELSE k
        hi == IF i >= j /\ i >= k THEN i ELSE IF j >= k THEN j ELSE k
    IN  <<hi, i + j + k - lo - hi, lo>>

\* tuple(sorted((i, j, k)))
Sorted3(i, j, k) ==
    LET lo == IF i <= j /\ i <= k THEN i ELSE IF j <= k THEN j ELSE k
        hi == IF i >= j /\ i >= k THEN i ELSE IF j >= k THEN j ELSE k
    IN  <<lo, i + j + k - lo - hi, hi>>

\* a plausible slip: permutations(range(n), 3) for combinations
Combinations3_permutations(n) ==
    LET code(t) == <<(t - 1) \div (n * n), ((t - 1) \div n) % n, (t - 1) % n>>
        all == [t \in 1..(n * n * n) |-> code(t)]
        distinct(c) == c[1] # c[2] /\ c[2] # c[3] /\ c[1] # c[3]
    IN  SelectSeq(all, distinct)

\* combinations(range(n), 3) in its lexicographic order
Combinations3(n) ==
    LET code(t) == <<(t - 1) \div (n * n), ((t - 1) \div n) % n, (t - 1) % n>>
        all == [t \in 1..(n * n * n) |-> code(t)]
        increasing(c) == c[1] < c[2] /\ c[2] < c[3]
    IN  SelectSeq(all, increasing)

\* the body of the loop of find_triangles for one triple: whether it is appended
Reported(lines, tab, c) ==
    LET i == c[1]
        j == c[2]
        k == c[3]
        v1 == tab.points[<<i, j>>]
        v2 == tab.points[<<j, k>>]
        v3 == tab.points[<<k, i>>]
    IN  /\ tab.valid_mask[<<i, j>>] /\ tab.valid_mask[<<j, k>>] /\ tab.valid_mask[<<k, i>>]
        /\ ~ (TooClose(v1, v2) \/ TooClose(v2, v3) \/ TooClose(v3, v1))
        /\ is_valid_triangle(lines, i, j, k, v1, v2, v3)

\* the loop of find_triangles over the table compute_intersections returned
triangles_of(lines, tab) ==
    LET keep(c) == Reported(lines, tab, c)
        kept == SelectSeq(Combinations3(n_lines(lines)), keep)
    IN  [t \in 1..Len(kept) |-> Sorted3(kept[t][1], kept[t][2], kept[t][3])]

\* find_triangles(): the list of sorted index triples of the valid triangles
find_triangles(lines) == triangles_of(lines, compute_intersections(lines))

(***************************************************************************)
(* KobonSolver on a LineSet given at some scale                            *)
(***************************************************************************)

\* the coefficients of a LineSet at scale s are in units of 1 / (One * s):
\* s = 1 is the unit scale of the rest of the model, s = SmallScale a LineSet
\* whose coefficients are a million times smaller
SmallScale == 1000000

Scales == {1, SmallScale}

\* np.abs(w) > 1e-10 for the real w = W / (One * s)^2:
\* |W| * 10^10 > (One * s)^2  <=>  |W| > (One * s / 10^5)^2, the quotient
\* being exact for s = SmallScale and below 1 for s = 1
AboveParallelTol_at(W, s) ==
    Abs(W) > ((One * s) \div ParallelTolInvRoot) * ((One * s) \div ParallelTolInvRoot)

\* valid_mask = np.abs(w) > 1e-10; valid_mask[idx, idx] = False
valid_mask_at(ls, i, j, s) ==
    IF i = j THEN FALSE ELSE AboveParallelTol_at(w(ls[i], ls[j]), s)

\* e < -eps and e > eps for the real e = (e.n / e.d) / s, eps = 1e-9
BelowNegEps_at(e, s) == -e.n > (e.d * s) \div SepEpsInv

AboveEps_at(e, s) == e.n > (e.d * s) \div SepEpsInv

\* cuts = (min_vals < -eps) & (max_vals > eps)
cuts_at(line, v1, v2, v3, s) ==
    LET e1 == Eval(line, v1)
        e2 == Eval(line, v2)
        e3 == Eval(line, v3)
    IN  BelowNegEps_at(Min3(e1, e2, e3), s) /\ AboveEps_at(Max3(e1, e2, e3), s)

\* is_valid_triangle(i, j, k, v1, v2, v3)
is_valid_triangle_at(ls, i, j, k, v1, v2, v3, s) ==
    LET other_lines == DOMAIN ls \ {i, j, k}
    IN  IF other_lines = {} THEN TRUE
        ELSE ~ \E m \in other_lines : cuts_at(ls[m], v1, v2, v3, s)

\* the body of the loop of find_triangles for one triple.  The points of
\* unmasked pairs are quotients of two determinants and do not depend on the
\* scale; the points of masked pairs are not read.
Reported_at(ls, c, s) ==
    LET i == c[1]
        j == c[2]
        k == c[3]
        v1 == point(ls, i, j)
        v2 == point(ls, j, k)
        v3 == point(ls, k, i)
    IN  /\ valid_mask_at(ls, i, j, s) /\ valid_mask_at(ls, j, k, s) /\ valid_mask_at(ls, k, i, s)
        /\ ~ (TooClose(v1, v2) \/ TooClose(v2, v3) \/ TooClose(v3, v1))
        /\ is_valid_triangle_at(ls, i, j, k, v1, v2, v3, s)

\* find_triangles() of KobonSolver(lines) for lines at scale s
find_triangles_at(ls, s) ==
    LET keep(c) == Reported_at(ls, c, s)
        kept == SelectSeq(Combinations3(n_lines(ls)), keep)
    IN  [t \in 1..Len(kept) |-> Sorted3(kept[t][1], kept[t][2], kept[t][3])]

(***************************************************************************)
(* graph_analyzer.py: compute_intersections and the triangle loop of       *)
(* extract_intersection_graph                                              *)
(***************************************************************************)

\* denom = a[:, None] * b[None, :] - a[None, :] * b[:, None]
ga_denom(l1, l2) == l1[1] * l2[2] - l2[1] * l1[2]

\* valid = np.abs(denom) > 1e-10; np.fill_diagonal(valid, False)
ga_valid(lines, i, j) ==
    IF i = j THEN FALSE
    ELSE Abs(ga_denom(lines[i], lines[j])) > ((One * One) \div ParallelTolInvRoot) \div ParallelTolInvRoot

\* b[:, None] * c[None, :] - b[None, :] * c[:, None]
ga_x_num(l1, l2) == l1[2] * l2[3] - l2[2] * l1[3]

\* a plausible slip: the two products of the numerator of y are exchanged
ga_y_num_exchanged(l1, l2) == l1[1] * l2[3] - l2[1] * l1[3]

\* a[None, :] * c[:, None] - a[:, None] * c[None, :]
ga_y_num(l1, l2) == l2[1] * l1[3] - l1[1] * l2[3]

\* safe_denom = np.where(valid, denom, 1.0); x and y are the numerators over
\* safe_denom, kept as fractions with a positive denominator
ga_point(lines, i, j) ==
    LET dn == ga_denom(lines[i], lines[j])
        xn == ga_x_num(lines[i], lines[j])
        yn == ga_y_num(lines[i], lines[j])
    IN  IF ga_valid(lines, i, j)
        THEN [xn |-> xn * Sgn(dn), yn |-> yn * Sgn(dn), d |-> Abs(dn)]
        ELSE [xn |-> xn, yn |-> yn, d |-> One * One]

\* compute_intersections(lines) of graph_analyzer.py
ga_compute_intersections(lines) ==
    [points |-> [p \in (DOMAIN lines) \X (DOMAIN lines) |-> ga_point(lines, p[1], p[2])],
     valid |-> [p \in (DOMAIN lines) \X (DOMAIN lines) |-> ga_valid(lines, p[1], p[2])]]

\* evals = lines[m] @ verts_h.T; np.min(evals) < -1e-9 and np.max(evals) > 1e-9
ga_cuts(line, v1, v2, v3) ==
    LET e1 == Eval(line, v1)
        e2 == Eval(line, v2)
        e3 == Eval(line, v3)
        lo == Min3(e1, e2, e3)
        hi == Max3(e1, e2, e3)
    IN  -lo.n > lo.d \div SepEpsInv /\ hi.n > hi.d \div SepEpsInv

\* the body of the triangle loop for one combination: whether it is added
ga_is_triangle(lines, tab, c) ==
    LET i == c[1]
        j == c[2]
        k == c[3]
        v1 == tab.points[<<i, j>>]
        v2 == tab.points[<<j, k>>]
        v3 == tab.points[<<i, k>>]
    IN  /\ tab.valid[<<i, j>>] /\ tab.valid[<<j, k>>] /\ tab.valid[<<i, k>>]
        /\ ~ (TooClose(v1, v2) \/ TooClose(v2, v3) \/ TooClose(v3, v1))
        /\ \A m \in DOMAIN lines : m \notin {i, j, k} => ~ ga_cuts(lines[m], v1, v2, v3)

\* triangle_set of extract_intersection_graph(lines): frozensets of indices
ga_triangle_set(lines) ==
    LET tab == ga_compute_intersections(lines)
        combos == Combinations3(n_lines(lines))
    IN  { {combos[t][1], combos[t][2], combos[t][3]} :
            t \in { u \in 1..Len(combos) : ga_is_triangle(lines, tab, combos[u]) } }

(***************************************************************************)
(* Optimizer (optimizer.py)                                                *)
(***************************************************************************)

RECURSIVE Pow(_, _)
Pow(b, e) == IF e = 0 THEN 1 ELSE b * Pow(b, e - 1)

\* normalize_lines leaves a^2 + b^2 = 1 on every line
IsNormalized(line) == line[1] * line[1] + line[2] * line[2] = One * One

\* objective(lines) = len(KobonSolver(lines).find_triangles())
objective(ls) == Len(find_triangles(ls))

\* candidate_state = current_state + np.random.normal(0, 0.1 * T, size=shape):
\* noise is the drawn matrix, in units of 1 / One
perturb(current, noise) ==
    [k \in DOMAIN current |->
        <<current[k][1] + noise[k][1], current[k][2] + noise[k][2],
          current[k][3] + noise[k][3]>>]

\* a plausible slip: the base of the power is inverted (T_start / T_end)
Temperature_inverted(t, max_t, Ts, Te) ==
    [root |-> max_t,
     n |-> Pow(Ts.n, max_t) * Pow(Ts.n * Te.d, t),
     d |-> Pow(Ts.d, max_t) * Pow(Ts.d * Te.n, t)]

\* T = T_start * ((T_end / T_start) ** (i / iterations)).  T_start and T_end
\* are fractions n / d.  The real T is kept by its max_t-th power, which is
\* the fraction T_start^max_t * (T_end / T_start)^t:  T = (n / d)^(1 / root)
Temperature(t, max_t, Ts, Te) ==
    [root |-> max_t,
     n |-> Pow(Ts.n, max_t) * Pow(Te.n * Ts.d, t),
     d |-> Pow(Ts.d, max_t) * Pow(Te.d * Ts.n, t)]

\* np.random.rand() < np.exp(delta / T).  The draw u of [0, 1) is kept by
\* v = -ln(u), a fraction n / d of (0, +oo] (d = 0 for u = 0), so that
\* u < exp(delta / T)  <=>  v * T > -delta  <=>  v^root * T^root > (-delta)^root
\* when delta <= 0; exp(delta / T) > 1 > u when delta > 0.
rand_below_exp(v, dl, temp) ==
    IF dl > 0 THEN TRUE
    ELSE Pow(v.n, temp.root) * temp.n > Pow(-dl, temp.root) * Pow(v.d, temp.root) * temp.d

\* a plausible slip: the sign of delta is lost in the exponent
accept_sign_slip(dl, temp, v) == dl > 0 \/ rand_below_exp(v, Abs(dl), temp)

\* a plausible slip: a candidate of equal score is never taken
accept_strict_zero(dl, temp, v) == dl > 0 \/ (dl < 0 /\ rand_below_exp(v, dl, temp))

\* if delta > 0 or np.random.rand() < np.exp(delta / T):
accept(dl, temp, v) == dl > 0 \/ rand_below_exp(v, dl, temp)

\* a plausible slip: the score is assigned outside the if
update_score_outside_if(st, cand, cs, acc) ==
    IF acc
    THEN [current_state |-> cand, current_score |-> cs,
          best_score |-> IF cs > st.best_score THEN cs ELSE st.best_score,
          best_state |-> IF cs > st.best_score THEN cand ELSE st.best_state]
    ELSE [st EXCEPT !.current_score = cs]

\* a plausible slip: the best is overwritten on every acceptance
update_best_unconditional(st, cand, cs, acc) ==
    IF acc
    THEN [current_state |-> cand, current_score |-> cs,
          best_score |-> cs, best_state |-> cand]
    ELSE st

\* a plausible slip: >= for > in the comparison with the best score
update_best_on_tie(st, cand, cs, acc) ==
    IF acc
    THEN [current_state |-> cand, current_score |-> cs,
          best_score |-> IF cs >= st.best_score THEN cs ELSE st.best_score,
          best_state |-> IF cs >= st.best_score THEN cand ELSE st.best_state]
    ELSE st

\* a plausible slip: current_score = candidate_score is left out
update_state_only(st, cand, cs, acc) ==
    IF acc
    THEN [current_state |-> cand, current_score |-> st.current_score,
          best_score |-> IF cs > st.best_score THEN cs ELSE st.best_score,
          best_state |-> IF cs > st.best_score THEN cand ELSE st.best_state]
    ELSE st

\* the body of the if of the loop: current_state = candidate_state;
\* current_score = candidate_score; if current_score > best_score: ...
update(st, cand, cs, acc) ==
    IF acc
    THEN [current_state |-> cand, current_score |-> cs,
          best_score |-> IF cs > st.best_score THEN cs ELSE st.best_score,
          best_state |-> IF cs > st.best_score THEN cand ELSE st.best_state]
    ELSE st

\* NumPy arrays are numbered in the order of their creation; a name that is
\* not bound yet refers to array Unbound
Unbound == 0

\* self.state = np.random.randn(n_lines, 3) is the first array
refs_constructed ==
    [state |-> 1, current_state |-> Unbound, best_state |-> Unbound,
     candidate_state |-> Unbound]

\* current_state = self.state.copy(); best_state = current_state.copy()
bind_begin(rf) == [rf EXCEPT !.current_state = 2, !.best_state = 3]

\* the arrays iteration t creates: the sum current_state + noise, and the
\* copy current_state.copy() of a new best
SumArray(t) == 4 + 2 * t

CopyArray(t) == 5 + 2 * t

\* a plausible slip: the noise is added in place (current_state += noise;
\* candidate_state = current_state)
bind_iteration_in_place(rf, t, acc, improved) ==
    [state |-> rf.state,
     candidate_state |-> rf.current_state,
     current_state |-> rf.current_state,
     best_state |-> IF acc /\ improved THEN CopyArray(t) ELSE rf.best_state]

\* candidate_state = current_state + noise (a new array); on acceptance
\* current_state = candidate_state (the same array), and on improvement
\* best_state = current_state.copy() (a new array)
bind_iteration(rf, t, acc, improved) ==
    [state |-> rf.state,
     candidate_state |-> SumArray(t),
     current_state |-> IF acc THEN SumArray(t) ELSE rf.current_state,
     best_state |-> IF acc /\ improved THEN CopyArray(t) ELSE rf.best_state]

\* a plausible slip: range(iterations + 1)
in_range_off_by_one(t, max_t) == t <= max_t

\* for i in range(iterations)
in_range(t, max_t) == t < max_t

(***************************************************************************)
(* Normalization (optimizer.py, force_symmetry.py, soft_symmetry.py,       *)
(* refiner.py)                                                             *)
(***************************************************************************)

\* the integer square root, exact on the squares
Isqrt(x) == CHOOSE r \in 0..x : r * r <= x /\ (r + 1) * (r + 1) > x

\* np.linalg.norm(line[:2]), in units of 1 / One
Norm(line) == Isqrt(line[1] * line[1] + line[2] * line[2])

\* norm < 1e-9 for the real norm r / One
NormBelowTol(r) == r < CeilDiv(One, NormTolInv)

\* line / norm, in units of 1 / One
Scale(line, r) == <<(line[1] * One) \div r, (line[2] * One) \div r, (line[3] * One) \div r>>

\* x < -1e-9 and abs(x) < 1e-9 for a coefficient x / One
CoefBelowNegTol(x) == -x > One \div NormTolInv

CoefAbsBelowTol(x) == Abs(x) < CeilDiv(One, NormTolInv)

\* a plausible slip: the convention is enforced the wrong way round (the
\* first non-zero component is made negative)
NeedsFlip_positive(line) ==
    \/ CoefBelowNegTol(-line[1])
    \/ (CoefAbsBelowTol(line[1]) /\ CoefBelowNegTol(-line[2]))

\* line[0] < -1e-9 or (abs(line[0]) < 1e-9 and line[1] < -1e-9)
NeedsFlip(line) ==
    \/ CoefBelowNegTol(line[1])
    \/ (CoefAbsBelowTol(line[1]) /\ CoefBelowNegTol(line[2]))

\* line *= -1
Negate(line) == <<-line[1], -line[2], -line[3]>>

\* Optimizer.normalize_lines: norms[norms < 1e-9] = 1.0; lines /= norms
normalize_lines(ls) ==
    [k \in DOMAIN ls |->
        LET r == Norm(ls[k])
        IN  Scale(ls[k], IF NormBelowTol(r) THEN One ELSE r)]

\* normalize_single_line (force_symmetry.py, soft_symmetry.py)
normalize_single_line(line) ==
    LET r == Norm(line)
    IN  IF NormBelowTol(r) THEN line
        ELSE LET l == Scale(line, r)
             IN  IF NeedsFlip(l) THEN Negate(l) ELSE l

\* the key (a, b, c) of np.lexsort((lines[:, 2], lines[:, 1], lines[:, 0]))
LexLess(l1, l2) ==
    \/ l1[1] < l2[1]
    \/ (l1[1] = l2[1] /\ l1[2] < l2[2])
    \/ (l1[1] = l2[1] /\ l1[2] = l2[2] /\ l1[3] < l2[3])

\* lines[ind] for the stable ascending order ind of the keys
LexSorted(ls) ==
    LET rank(k) == Cardinality({ j \in DOMAIN ls :
                                   LexLess(ls[j], ls[k]) \/ (ls[j] = ls[k] /\ j < k) })
    IN  [p \in DOMAIN ls |-> ls[CHOOSE k \in DOMAIN ls : rank(k) = p]]

\* canonicalize (refiner.py): normalize, enforce the sign, sort
canonicalize(ls) ==
    LET unit == normalize_lines(ls)
        signed == [k \in DOMAIN ls |-> IF NeedsFlip(unit[k]) THEN Negate(unit[k]) ELSE unit[k]]
    IN  LexSorted(signed)

(***************************************************************************)
(* Persisted configuration records (main.py, refiner.py, soft_symmetry.py, *)
(* force_symmetry.py)                                                      *)
(***************************************************************************)

\* lines.tolist(): the list of the [a, b, c] rows
tolist(ls) == [t \in 1..n_lines(ls) |-> ls[t - 1]]

\* save_best_config(lines, score) of main.py: the dictionary handed to json.dump
save_best_config(ls, score) ==
    [n_lines |-> n_lines(ls), score |-> score, lines |-> tolist(ls)]

\* save_best(lines, score) of refiner.py
save_best(ls, score) ==
    [n_lines |-> n_lines(ls), score |-> score, lines |-> tolist(ls)]

\* json.dump({"score": ..., "lines": ....tolist()}, f) of soft_symmetry.py and
\* force_symmetry.py
score_and_lines(ls, score) == [score |-> score, lines |-> tolist(ls)]

\* get_reflected_line: (a, b, c) -> (-a, b, c)
get_reflected_line(line) == <<-line[1], line[2], line[3]>>

\* SymmetricOptimizer.get_full_state: every master line followed by its reflection
get_full_state(master) ==
    [k \in 0..(2 * n_lines(master) - 1) |->
        IF k % 2 = 0 THEN master[k \div 2] ELSE get_reflected_line(master[k \div 2])]

(***************************************************************************)
(* force_symmetry.py: symmetrize_lines                                     *)
(***************************************************************************)

\* np.linalg.norm(u - v) ** 2 of two lines as 3-vectors, in units of 1 / One^2
SqDist(u, v) ==
    (u[1] - v[1]) * (u[1] - v[1]) + (u[2] - v[2]) * (u[2] - v[2])
        + (u[3] - v[3]) * (u[3] - v[3])

\* dist = min(d1, d2) for d1 = norm(l_j - target), d2 = norm(l_j + target),
\* kept by its square
pair_dist(l_j, target) ==
    IF SqDist(l_j, target) <= SqDist(l_j, Negate(target))
    THEN SqDist(l_j, target) ELSE SqDist(l_j, Negate(target))

\* the inner loop over j in range(i + 1, len(lines)): the first unused j of
\* least dist (the comparison dist < best_dist is strict), -1 when no unused
\* j is left.  best_dist starts at 1e9, above every distance between lines
\* of the model.
best_match(ls, used, idx, target) ==
    LET cand == { j \in DOMAIN ls : j > idx /\ ~ used[j] }
    IN  IF cand = {} THEN -1
        ELSE CHOOSE j \in cand :
                \A h \in cand :
                    \/ pair_dist(ls[j], target) < pair_dist(ls[h], target)
                    \/ (pair_dist(ls[j], target) = pair_dist(ls[h], target) /\ j <= h)

\* a plausible slip: used[best_j] = True is left out
mark_used_first_only(used, idx, best_j) == [used EXCEPT ![idx] = TRUE]

\* used[i] = True; used[best_j] = True
mark_used(used, idx, best_j) == [used EXCEPT ![idx] = TRUE, ![best_j] = TRUE]

\* (l1 + ref_l2) / 2.0; the sums of the model have even coefficients
Half(v) == <<v[1] \div 2, v[2] \div 2, v[3] \div 2>>

\* the master of the pair (l1, l2): the reflection of l2, with the sign that
\* is nearer to l1, averaged with l1 and normalized
master_of(l1, l2) ==
    LET ref == get_reflected_line(l2)
        ref_l2 == IF SqDist(l1, ref) > SqDist(l1, Negate(ref)) THEN Negate(ref) ELSE ref
    IN  normalize_single_line(Half(<<l1[1] + ref_l2[1], l1[2] + ref_l2[2], l1[3] + ref_l2[3]>>))

\* lines[:5]
first_five(ls) == [k \in { h \in DOMAIN ls : h < 5 } |-> ls[k]]

\* np.array(pairs): the list of masters as an array
as_array(pairs) == [k \in 0..(Len(pairs) - 1) |-> pairs[k + 1]]

\* the return of symmetrize_lines
symmetrize_result(ls, pairs) ==
    IF Len(pairs) # 5 THEN first_five(ls) ELSE as_array(pairs)

(***************************************************************************)
(* State                                                                   *)
(***************************************************************************)

VARIABLES
    lines,          \* KobonSolver.lines
    points,         \* points returned by the last compute_intersections()
    mask,           \* valid_mask returned by the last compute_intersections()
    triangles,      \* list returned by the last find_triangles()
    gpc,            \* which call of the solver returned last
    state,          \* Optimizer.state
    iterations,     \* optimize(iterations, T_start, T_end)
    T_start,
    T_end,
    pc,             \* where the optimizer is: constructed, loop, done
    i,              \* the loop variable of optimize
    current_state,
    current_score,
    best_state,
    best_score,
    candidate_state, \* the locals of the last iteration
    candidate_score,
    delta,
    T,
    rand,           \* the last np.random.rand(), NoDraw when none was drawn
    accepted,       \* whether the last iteration took the if
    history,        \* the initial and every accepted (state, score), in order
    nevals,         \* calls of objective so far
    result,         \* the value optimize returned
    refs,           \* which array each name of the optimizer is bound to
    nlines,         \* the LineSet the normalization functions are applied to
    nprev,          \* the argument of the last normalization call
    npc,            \* which normalization function returned last
    config,         \* the LineSet a script is about to persist
    saved,          \* the record handed to the last json.dump
    writer,         \* the script that wrote it
    main_loop,      \* main(): the locals of the loop over the runs
    base_triangles, \* the list find_triangles returned before a line was appended
    graph,          \* graph_analyzer: what extract_intersection_graph computed
    soft,           \* run_soft_symmetry(): its locals
    forced,         \* SymmetricOptimizer.optimize(): its locals
    pairing,        \* symmetrize_lines(): its argument and its locals on return
    scaling         \* a LineSet given at some scale, evaluated before and after normalize_lines

gvars == <<lines, points, mask, triangles, gpc>>

ovars == <<state, iterations, T_start, T_end, pc, i, current_state, current_score,
           best_state, best_score, candidate_state, candidate_score, delta, T,
           rand, accepted, history, nevals, result, refs>>

nvars == <<nlines, nprev, npc>>

svars == <<config, saved, writer>>

wvars == <<base_triangles, graph, soft, forced, pairing, scaling>>

xvars == <<main_loop, wvars>>

vars == <<gvars, ovars, nvars, svars, xvars>>

NoT == [root |-> 1, n |-> 0, d |-> 1]

NoDraw == [n |-> 0, d |-> 1]

\* no solver has been constructed
GeoIdle ==
    /\ lines = << >>
    /\ points = << >>
    /\ mask = << >>
    /\ triangles = << >>
    /\ gpc = "idle"

\* the locals of optimize before the call
OptLocalsUnset ==
    /\ iterations = 0
    /\ T_start = [n |-> 1, d |-> 1]
    /\ T_end = [n |-> 1, d |-> 1]
    /\ i = 0
    /\ current_state = << >>
    /\ current_score = 0
    /\ best_state = << >>
    /\ best_score = 0
    /\ candidate_state = << >>
    /\ candidate_score = 0
    /\ delta = 0
    /\ T = NoT
    /\ rand = NoDraw
    /\ accepted = FALSE
    /\ history = << >>
    /\ nevals = 0
    /\ result = << >>
    /\ refs = refs_constructed

\* no normalization function has been called
NormIdle ==
    /\ nlines = << >>
    /\ nprev = << >>
    /\ npc = "idle"

\* no script holds a configuration to persist
SaveIdle ==
    /\ config = << >>
    /\ saved = << >>
    /\ writer = "idle"

\* main, the graph analyzer and the symmetry scripts have not been started
MainIdle == main_loop = [pc |-> "idle"]

AppendIdle == base_triangles = << >>

GraphIdle == graph = [pc |-> "idle"]

SoftIdle == soft = [pc |-> "idle"]

ForcedIdle == forced = [pc |-> "idle"]

PairingIdle == pairing = [pc |-> "idle"]

ScalingIdle == scaling = [pc |-> "idle"]

XIdle == MainIdle /\ AppendIdle /\ GraphIdle /\ SoftIdle /\ ForcedIdle /\ PairingIdle /\ ScalingIdle

\* no optimizer has been constructed
OptIdle ==
    /\ state = << >>
    /\ pc = "idle"
    /\ OptLocalsUnset

(***************************************************************************)
(* Evaluation of a LineSet: KobonSolver(lines), then its methods           *)
(***************************************************************************)

\* lines a caller hands to the solver, in units of 1 / One:
\* x = 0, y = 0, x + y = 0 (concurrent at the origin), x = 1, y = 1,
\* x + y = 3 (with x = 1, y = 1 the fixture triangle), 2x + 5 = 0 (parallel
\* to x = 0) and the degenerate 0x + 0y + 1 = 0
LinePool ==
    { <<5, 0, 0>>, <<0, 5, 0>>, <<5, 5, 0>>,
      <<5, 0, -5>>, <<0, 5, -5>>, <<5, 5, -15>>,
      <<10, 0, 25>>, <<0, 0, 5>> }

LineSets == UNION { [0..(n - 1) -> LinePool] : n \in 0..MaxN }

GeoInit ==
    /\ lines \in LineSets
    /\ points = << >>
    /\ mask = << >>
    /\ triangles = << >>
    /\ gpc = "constructed"
    /\ OptIdle
    /\ NormIdle
    /\ SaveIdle
    /\ XIdle

\* a plausible slip: the column view of c is negated in place (c1 *= -1)
\* while the table is computed
call_compute_intersections_writes_view ==
    /\ \E tab \in {compute_intersections(lines)} :
          /\ points' = tab.points
          /\ mask' = tab.valid_mask
    /\ gpc' = "compute_intersections"
    /\ lines' = [k \in DOMAIN lines |-> <<lines[k][1], lines[k][2], -lines[k][3]>>]
    /\ UNCHANGED triangles
    /\ UNCHANGED <<ovars, nvars, svars, xvars>>

call_compute_intersections ==
    /\ \E tab \in {compute_intersections(lines)} :
          /\ points' = tab.points
          /\ mask' = tab.valid_mask
    /\ gpc' = "compute_intersections"
    /\ UNCHANGED <<lines, triangles>>
    /\ UNCHANGED <<ovars, nvars, svars, xvars>>

\* a plausible slip: the list is an attribute of the solver that is never
\* reset, so a second call appends to the first call's list
call_find_triangles_accumulating ==
    /\ \E tab \in {compute_intersections(lines)} :
          /\ points' = tab.points
          /\ mask' = tab.valid_mask
          /\ triangles' = triangles \o triangles_of(lines, tab)
    /\ gpc' = "find_triangles"
    /\ UNCHANGED lines
    /\ UNCHANGED <<ovars, nvars, svars, xvars>>

call_find_triangles ==
    /\ \E tab \in {compute_intersections(lines)} :
          /\ points' = tab.points
          /\ mask' = tab.valid_mask
          /\ triangles' = triangles_of(lines, tab)
    /\ gpc' = "find_triangles"
    /\ UNCHANGED lines
    /\ UNCHANGED <<ovars, nvars, svars, xvars>>

GeoNext == call_compute_intersections \/ call_find_triangles

GeoSpec == GeoInit /\ [][GeoNext]_vars

(***************************************************************************)
(* One trajectory: Optimizer(n_lines), then optimize(...)                  *)
(***************************************************************************)

\* unit normals (a, b) with a^2 + b^2 = 1, in units of 1 / One
InitDirs == << <<5, 0>>, <<0, 5>>, <<3, 4>>, <<4, -3>>, <<4, 3>>, <<-3, 4>> >>

\* Optimizer.__init__: self.state after normalize_lines.  Line k has the
\* normal InitDirs[k]; every line passes through the origin except that
\* line 0 has c = c0.
InitState(c0) ==
    [k \in 0..(NLines - 1) |->
        <<InitDirs[(k % Len(InitDirs)) + 1][1], InitDirs[(k % Len(InitDirs)) + 1][2],
          IF k = 0 THEN c0 ELSE 0>>]

InitStates == { InitState(c0) : c0 \in {0, -1} }

\* T_start and T_end handed to optimize: 0 < T_end <= T_start
Temperatures == { [n |-> 1, d |-> 1], [n |-> 1, d |-> 2] }

\* draws of np.random.rand() by v = -ln(u): u = exp(-1/2), exp(-3) and 0
Draws == { [n |-> 1, d |-> 2], [n |-> 3, d |-> 1], [n |-> 1, d |-> 0] }

\* draws of the noise matrix: all zero, or one coefficient a or c of one of
\* the first NoisyLines lines moved by one unit
NoiseSet ==
    LET single(k0, col, sg) ==
            [k \in 0..(NLines - 1) |->
                [c \in 1..3 |-> IF k = k0 /\ c = col THEN sg ELSE 0]]
    IN  { [k \in 0..(NLines - 1) |-> <<0, 0, 0>>] } \cup
        { single(k0, col, sg) : k0 \in 0..(NoisyLines - 1), col \in {1, 3}, sg \in {-1, 1} }

Init ==
    /\ GeoIdle
    /\ state \in InitStates
    /\ pc = "constructed"
    /\ OptLocalsUnset
    /\ NormIdle
    /\ SaveIdle
    /\ XIdle

\* optimize(...) up to the loop: the copies and the initial evaluation
optimize_begin ==
    /\ pc = "constructed"
    /\ iterations' \in 0..MaxIter
    /\ \E ts \in Temperatures, te \in Temperatures :
          /\ te.n * ts.d <= ts.n * te.d
          /\ T_start' = ts
          /\ T_end' = te
    /\ current_state' = state
    /\ current_score' = objective(current_state')
    /\ best_state' = current_state'
    /\ best_score' = current_score'
    /\ history' = << [state |-> current_state', score |-> current_score'] >>
    /\ nevals' = 1
    /\ i' = 0
    /\ pc' = "loop"
    /\ refs' = bind_begin(refs)
    /\ UNCHANGED <<state, candidate_state, candidate_score, delta, T, rand, accepted, result>>
    /\ UNCHANGED <<gvars, nvars, svars, xvars>>

\* one iteration of the loop
optimize_iteration ==
    /\ pc = "loop"
    /\ in_range(i, iterations)
    /\ T' = Temperature(i, iterations, T_start, T_end)
    /\ \E noise \in NoiseSet : candidate_state' = perturb(current_state, noise)
    /\ candidate_score' = objective(candidate_state')
    /\ delta' = candidate_score' - current_score
    \* the draw is made only when delta > 0 fails (short-circuit or)
    /\ rand' \in (IF delta' > 0 THEN {NoDraw} ELSE Draws)
    /\ accepted' = accept(delta', T', rand')
    /\ LET new == update([current_state |-> current_state,
                          current_score |-> current_score,
                          best_state |-> best_state,
                          best_score |-> best_score],
                         candidate_state', candidate_score', accepted')
       IN  /\ current_state' = new.current_state
           /\ current_score' = new.current_score
           /\ best_state' = new.best_state
           /\ best_score' = new.best_score
    /\ history' = IF accepted'
                  THEN Append(history, [state |-> candidate_state', score |-> candidate_score'])
                  ELSE history
    /\ refs' = bind_iteration(refs, i, accepted', candidate_score' > best_score)
    /\ nevals' = nevals + 1
    /\ i' = i + 1
    /\ UNCHANGED <<state, iterations, T_start, T_end, pc, result>>
    /\ UNCHANGED <<gvars, nvars, svars, xvars>>

\* return best_state, best_score
optimize_return ==
    /\ pc = "loop"
    /\ ~ in_range(i, iterations)
    /\ result' = <<best_state, best_score>>
    /\ pc' = "done"
    /\ UNCHANGED <<state, iterations, T_start, T_end, i, current_state, current_score,
                   best_state, best_score, candidate_state, candidate_score, delta, T,
                   rand, accepted, history, nevals, refs>>
    /\ UNCHANGED <<gvars, nvars, svars, xvars>>

Next == optimize_begin \/ optimize_iteration \/ optimize_return

Spec == Init /\ [][Next]_vars

\* the loop is sequential code: a step that can be taken is taken
FairSpec == Spec /\ WF_vars(Next)

(***************************************************************************)
(* Optimizer(n_lines).optimize(...) called with any parameters             *)
(***************************************************************************)

\* Optimizer.__init__ for any n: line k has the normal InitDirs[k] and
\* passes through the origin, except that line 0 has c = -1 / One
CallState(n) ==
    [k \in 0..(n - 1) |->
        <<InitDirs[(k % Len(InitDirs)) + 1][1], InitDirs[(k % Len(InitDirs)) + 1][2],
          IF k = 0 THEN -1 ELSE 0>>]

\* n_lines a caller may pass: fewer than three lines, and NLines
CallSizes == {2, NLines}

CallInit ==
    /\ GeoIdle
    /\ state \in { CallState(n) : n \in CallSizes }
    /\ pc = "constructed"
    /\ OptLocalsUnset
    /\ NormIdle
    /\ SaveIdle
    /\ XIdle

\* optimize(iterations, T_start, T_end) up to the loop, for any iteration
\* count from -1 and any pair of positive temperatures: the code tests none
\* of its parameters
optimize_call ==
    /\ pc = "constructed"
    /\ iterations' \in -1..MaxIter
    /\ T_start' \in Temperatures
    /\ T_end' \in Temperatures
    /\ current_state' = state
    /\ current_score' = objective(current_state')
    /\ best_state' = current_state'
    /\ best_score' = current_score'
    /\ history' = << [state |-> current_state', score |-> current_score'] >>
    /\ nevals' = 1
    /\ i' = 0
    /\ pc' = "loop"
    /\ refs' = bind_begin(refs)
    /\ UNCHANGED <<state, candidate_state, candidate_score, delta, T, rand, accepted, result>>
    /\ UNCHANGED <<gvars, nvars, svars, xvars>>

CallNext == optimize_call \/ optimize_iteration \/ optimize_return

CallSpec == CallInit /\ [][CallNext]_vars

(***************************************************************************)
(* The normalization functions applied to a LineSet                        *)
(***************************************************************************)

\* lines handed to the normalization functions, in units of 1 / One: unit
\* and non-unit normals, both signs, and the degenerate 0x + 0y + 1 = 0
RawLines ==
    { <<3, 4, 5>>, <<-3, -4, 5>>, <<6, 8, 10>>, <<0, 5, -5>>, <<0, -5, 5>>,
      <<0, -10, 10>>, <<5, 0, 0>>, <<-4, 3, 0>>, <<0, 0, 5>> }

NormInputs == UNION { [0..(n - 1) -> RawLines] : n \in 0..MaxNormN }

NormInit ==
    /\ nlines \in NormInputs
    /\ nprev = << >>
    /\ npc = "input"
    /\ GeoIdle
    /\ OptIdle
    /\ SaveIdle
    /\ XIdle

\* optimizer.normalize_lines(lines): in place
call_normalize_lines ==
    /\ nprev' = nlines
    /\ nlines' = normalize_lines(nlines)
    /\ npc' = "normalize_lines"
    /\ UNCHANGED <<gvars, ovars, svars, xvars>>

\* np.array([normalize_single_line(l) for l in lines])
call_normalize_single_line ==
    /\ nprev' = nlines
    /\ nlines' = [k \in DOMAIN nlines |-> normalize_single_line(nlines[k])]
    /\ npc' = "normalize_single_line"
    /\ UNCHANGED <<gvars, ovars, svars, xvars>>

\* canonicalize(lines)
call_canonicalize ==
    /\ nprev' = nlines
    /\ nlines' = canonicalize(nlines)
    /\ npc' = "canonicalize"
    /\ UNCHANGED <<gvars, ovars, svars, xvars>>

NormNext == call_normalize_lines \/ call_normalize_single_line \/ call_canonicalize

NormSpec == NormInit /\ [][NormNext]_vars

(***************************************************************************)
(* The scripts persisting a configuration                                  *)
(***************************************************************************)

\* x = 1, y = 1, x + y = 3 and x = 0, in units of 1 / One
SavePool == { <<5, 0, -5>>, <<0, 5, -5>>, <<5, 5, -15>>, <<5, 0, 0>> }

SaveConfigs == UNION { [0..(n - 1) -> SavePool] : n \in 0..MaxSaveN }

SaveInit ==
    /\ config \in SaveConfigs
    /\ saved = << >>
    /\ writer = "none"
    /\ GeoIdle
    /\ OptIdle
    /\ NormIdle
    /\ XIdle

\* main: save_best_config(global_best_config, global_best_score)
main_save ==
    /\ saved' = save_best_config(config, objective(config))
    /\ writer' = "main"
    /\ UNCHANGED <<config, gvars, ovars, nvars, xvars>>

\* refine: save_best(current_best_lines, current_best_score, ...)
refiner_save ==
    /\ saved' = save_best(config, objective(config))
    /\ writer' = "refiner"
    /\ UNCHANGED <<config, gvars, ovars, nvars, xvars>>

\* run_soft_symmetry, on a new score record: record_<score>_soft.json
soft_symmetry_record ==
    /\ saved' = score_and_lines(config, objective(config))
    /\ writer' = "soft_symmetry_record"
    /\ UNCHANGED <<config, gvars, ovars, nvars, xvars>>

\* run_soft_symmetry, at the end: soft_symmetry_final.json with
\* score = len(tris) of best_sym_lines
soft_symmetry_final ==
    /\ saved' = score_and_lines(config, Len(find_triangles(config)))
    /\ writer' = "soft_symmetry_final"
    /\ UNCHANGED <<config, gvars, ovars, nvars, xvars>>

\* run_forced_symmetry: symmetric_result.json with the full state of the
\* best master lines and best_score = objective(best_master)
forced_symmetry_save ==
    /\ \E full_lines \in {get_full_state(config)} :
          saved' = score_and_lines(full_lines, objective(full_lines))
    /\ writer' = "force_symmetry"
    /\ UNCHANGED <<config, gvars, ovars, nvars, xvars>>

SaveNext ==
    \/ main_save
    \/ refiner_save
    \/ soft_symmetry_record
    \/ soft_symmetry_final
    \/ forced_symmetry_save

SaveSpec == SaveInit /\ [][SaveNext]_vars

(***************************************************************************)
(* main(): the sequential runs and the global best                         *)
(***************************************************************************)

\* a plausible slip: >= for > in the comparison with the global best
improves_on_tie(best, global_best) == best >= global_best

\* if best_score > global_best_score:
improves(best, global_best) == best > global_best

\* args.lines: the number of lines of the LineSet a run returns
RunLines == 3

\* x = 1, y = 1 and x + y = 3, in units of 1 / One
RunPool == { <<5, 0, -5>>, <<0, 5, -5>>, <<5, 5, -15>> }

\* what a run can return: a LineSet of args.lines lines
RunResults == [0..(RunLines - 1) -> RunPool]

\* global_best_score = -1; global_best_config = None
MainInit ==
    /\ \E r \in 0..MaxRuns :
          main_loop = [pc |-> "running", runs |-> r, run_idx |-> 0,
                       global_best_score |-> -1, global_best_config |-> << >>,
                       run_scores |-> << >>, nsaved |-> 0]
    /\ config = << >>
    /\ saved = << >>
    /\ writer = "none"
    /\ GeoIdle
    /\ OptIdle
    /\ NormIdle
    /\ AppendIdle /\ GraphIdle /\ SoftIdle /\ ForcedIdle /\ PairingIdle /\ ScalingIdle

\* one pass of the loop over the runs: the optimizer returns
\* (best_state, best_score); the global best is compared, and on improvement
\* updated and saved
main_run ==
    /\ main_loop.pc = "running"
    /\ main_loop.run_idx < main_loop.runs
    /\ \E run_best_state \in RunResults :
          LET run_best_score == objective(run_best_state)
              better == improves(run_best_score, main_loop.global_best_score)
          IN  /\ main_loop' =
                    [main_loop EXCEPT
                        !.run_idx = @ + 1,
                        !.run_scores = Append(@, run_best_score),
                        !.global_best_score = IF better THEN run_best_score ELSE @,
                        !.global_best_config = IF better THEN run_best_state ELSE @,
                        !.nsaved = IF better THEN @ + 1 ELSE @]
              /\ saved' = IF better THEN save_best_config(run_best_state, run_best_score) ELSE saved
              /\ writer' = IF better THEN "main" ELSE writer
    /\ UNCHANGED <<config, gvars, ovars, nvars, wvars>>

\* the loop is over: the final report
main_finish ==
    /\ main_loop.pc = "running"
    /\ main_loop.run_idx = main_loop.runs
    /\ main_loop' = [main_loop EXCEPT !.pc = "done"]
    /\ UNCHANGED <<svars, gvars, ovars, nvars, wvars>>

MainNext == main_run \/ main_finish

MainSpec == MainInit /\ [][MainNext]_vars

(***************************************************************************)
(* find_triangles before and after normalize_lines, for a LineSet given at *)
(* some scale                                                              *)
(***************************************************************************)

\* lines with a non-zero normal of integer norm: x = 0, y = 1, 3x + 4y + 5 = 0,
\* y = 1 and 3x + 4y + 5 = 0 again with doubled coefficients, 4x - 3y = 0
ScalePool ==
    { <<5, 0, 0>>, <<0, 5, -5>>, <<3, 4, 5>>, <<0, -10, 10>>, <<6, 8, 10>>, <<-4, 3, 0>> }

ScaleInputs == UNION { [0..(n - 1) -> ScalePool] : n \in 0..MaxScaleN }

ScaleInit ==
    /\ \E ls \in ScaleInputs, s \in Scales :
          scaling = [pc |-> "input", lines |-> ls, scale |-> s,
                     before |-> << >>, after |-> << >>]
    /\ GeoIdle /\ OptIdle /\ NormIdle /\ SaveIdle
    /\ MainIdle /\ AppendIdle /\ GraphIdle /\ SoftIdle /\ ForcedIdle /\ PairingIdle

\* KobonSolver(lines).find_triangles() on the lines as given
scale_find_triangles_before ==
    /\ scaling.pc = "input"
    /\ scaling' = [scaling EXCEPT !.pc = "evaluated",
                                  !.before = find_triangles_at(scaling.lines, scaling.scale)]
    /\ UNCHANGED <<gvars, ovars, nvars, svars, main_loop, base_triangles, graph, soft,
                   forced, pairing>>

\* normalize_lines(lines): every norm is at least 1e-9 at both scales, and the
\* quotient line / norm is at the unit scale
scale_normalize_lines ==
    /\ scaling.pc = "evaluated"
    /\ scaling' = [scaling EXCEPT !.pc = "normalized",
                                  !.lines = normalize_lines(scaling.lines),
                                  !.scale = 1]
    /\ UNCHANGED <<gvars, ovars, nvars, svars, main_loop, base_triangles, graph, soft,
                   forced, pairing>>

\* KobonSolver(lines).find_triangles() on the normalized lines
scale_find_triangles_after ==
    /\ scaling.pc = "normalized"
    /\ scaling' = [scaling EXCEPT !.pc = "done",
                                  !.after = find_triangles_at(scaling.lines, scaling.scale)]
    /\ UNCHANGED <<gvars, ovars, nvars, svars, main_loop, base_triangles, graph, soft,
                   forced, pairing>>

ScaleNext ==
    scale_find_triangles_before \/ scale_normalize_lines \/ scale_find_triangles_after

ScaleSpec == ScaleInit /\ [][ScaleNext]_vars

(***************************************************************************)
(* KobonSolver on a LineSet and on the same LineSet with one more line     *)
(***************************************************************************)

\* x = 1, y = 1, x + y = 3 (a triangle), 2x + 2y = 5 (which cuts it), x = 0
\* and y = 0 (which do not), in units of 1 / One
AppendPool ==
    { <<5, 0, -5>>, <<0, 5, -5>>, <<5, 5, -15>>, <<10, 10, -25>>, <<5, 0, 0>>, <<0, 5, 0>> }

AppendInputs == UNION { [0..(n - 1) -> AppendPool] : n \in 0..MaxBaseN }

AppendInit ==
    /\ lines \in AppendInputs
    /\ points = << >>
    /\ mask = << >>
    /\ triangles = << >>
    /\ gpc = "constructed"
    /\ base_triangles = << >>
    /\ OptIdle /\ NormIdle /\ SaveIdle
    /\ MainIdle /\ GraphIdle /\ SoftIdle /\ ForcedIdle /\ PairingIdle /\ ScalingIdle

\* KobonSolver(L).find_triangles()
append_find_base ==
    /\ gpc = "constructed"
    /\ \E tab \in {compute_intersections(lines)} :
          /\ points' = tab.points
          /\ mask' = tab.valid_mask
          /\ base_triangles' = triangles_of(lines, tab)
    /\ gpc' = "base"
    /\ UNCHANGED <<lines, triangles>>
    /\ UNCHANGED <<ovars, nvars, svars, main_loop, graph, soft, forced, pairing, scaling>>

\* KobonSolver(np.vstack([L, m])): a new solver on L with m appended at the end
append_line ==
    /\ gpc = "base"
    /\ \E m \in AppendPool :
          lines' = [k \in 0..n_lines(lines) |-> IF k < n_lines(lines) THEN lines[k] ELSE m]
    /\ points' = << >>
    /\ mask' = << >>
    /\ gpc' = "appended"
    /\ UNCHANGED <<triangles, base_triangles>>
    /\ UNCHANGED <<ovars, nvars, svars, main_loop, graph, soft, forced, pairing, scaling>>

\* find_triangles() of the solver on L plus m
append_find_triangles ==
    /\ gpc = "appended"
    /\ \E tab \in {compute_intersections(lines)} :
          /\ points' = tab.points
          /\ mask' = tab.valid_mask
          /\ triangles' = triangles_of(lines, tab)
    /\ gpc' = "extended"
    /\ UNCHANGED <<lines, base_triangles>>
    /\ UNCHANGED <<ovars, nvars, svars, main_loop, graph, soft, forced, pairing, scaling>>

AppendNext == append_find_base \/ append_line \/ append_find_triangles

AppendSpec == AppendInit /\ [][AppendNext]_vars

(***************************************************************************)
(* graph_analyzer.py and KobonSolver on the same LineSet                   *)
(***************************************************************************)

\* x = 1, y = 1, x + y = 3 (a triangle), 2x + 2y = 5 (parallel to x + y = 3,
\* cuts the triangle), x + y = 2 (through the vertex (1, 1)), x = 0 and the
\* degenerate 0x + 0y + 1 = 0, in units of 1 / One
GraphPool ==
    { <<5, 0, -5>>, <<0, 5, -5>>, <<5, 5, -15>>, <<10, 10, -25>>, <<5, 5, -10>>,
      <<5, 0, 0>>, <<0, 0, 5>> }

GraphInputs == UNION { [0..(n - 1) -> GraphPool] : n \in 0..MaxGraphN }

GraphInit ==
    /\ lines \in GraphInputs
    /\ points = << >>
    /\ mask = << >>
    /\ triangles = << >>
    /\ gpc = "constructed"
    /\ graph = [pc |-> "input"]
    /\ OptIdle /\ NormIdle /\ SaveIdle
    /\ MainIdle /\ AppendIdle /\ SoftIdle /\ ForcedIdle /\ PairingIdle /\ ScalingIdle

\* G, triangle_set = extract_intersection_graph(lines), with the table its
\* call of compute_intersections returned
graph_extract ==
    /\ graph.pc = "input"
    /\ graph' = [pc |-> "done",
                 points |-> ga_compute_intersections(lines).points,
                 valid |-> ga_compute_intersections(lines).valid,
                 triangle_set |-> ga_triangle_set(lines)]
    /\ UNCHANGED <<gvars, ovars, nvars, svars, main_loop, base_triangles, soft, forced,
                   pairing, scaling>>

\* KobonSolver(lines).find_triangles() on the same lines
graph_find_triangles ==
    /\ gpc = "constructed"
    /\ call_find_triangles

GraphNext == graph_extract \/ graph_find_triangles

GraphSpec == GraphInit /\ [][GraphNext]_vars

(***************************************************************************)
(* symmetrize_lines(lines)                                                 *)
(***************************************************************************)

\* five lines with normals (0.6, 0.8) and (0.6, -0.8), in units of 1 / One;
\* the offsets are multiples of 24 so that every average of two lines and
\* its normalization is exact
Masters ==
    << <<3, 4, 0>>, <<3, 4, 24>>, <<3, 4, -24>>, <<3, 4, 48>>, <<3, -4, 72>> >>

Master(k) == Masters[(k % Len(Masters)) + 1]

\* the mirror image of a line in its normalized form
Mirror(line) == normalize_single_line(get_reflected_line(line))

\* the arrangements handed to symmetrize_lines: every line followed by its
\* mirror image, the lines first and their mirror images after them, lines
\* that have no mirror image in the list, and an arrangement given with
\* doubled and negated coefficients
Arrangements == {"interleaved", "blocked", "unsymmetric", "raw"}

PairInput(n, arr) ==
    LET h == (n + 1) \div 2
        blocked(k) == IF k < h THEN Master(k) ELSE Mirror(Master(k - h))
    IN  [k \in 0..(n - 1) |->
            CASE arr = "interleaved" ->
                    IF k % 2 = 0 THEN Master(k \div 2) ELSE Mirror(Master(k \div 2))
              [] arr = "blocked" -> blocked(k)
              [] arr = "unsymmetric" -> Master(k)
              [] arr = "raw" ->
                    <<-2 * blocked(k)[1], -2 * blocked(k)[2], -2 * blocked(k)[3]>>]

PairInit ==
    /\ \E n \in 0..MaxPairN, arr \in Arrangements :
          pairing = [pc |-> "called", lines |-> PairInput(n, arr), idx |-> 0,
                     used |-> << >>, pairs |-> << >>, pair_of |-> << >>,
                     result |-> << >>]
    /\ GeoIdle /\ OptIdle /\ NormIdle /\ SaveIdle
    /\ MainIdle /\ AppendIdle /\ GraphIdle /\ SoftIdle /\ ForcedIdle /\ ScalingIdle

\* lines = np.array([normalize_single_line(l) for l in lines]); pairs = [];
\* used = [False] * len(lines)
symmetrize_begin ==
    /\ pairing.pc = "called"
    /\ pairing' = [pairing EXCEPT
            !.pc = "loop",
            !.lines = [k \in DOMAIN pairing.lines |-> normalize_single_line(pairing.lines[k])],
            !.used = [k \in DOMAIN pairing.lines |-> FALSE]]
    /\ UNCHANGED <<gvars, ovars, nvars, svars, main_loop, base_triangles, graph, soft,
                   forced, scaling>>

\* one pass of the loop over i; pair_of records (i, best_j) of each master
symmetrize_iteration ==
    /\ pairing.pc = "loop"
    /\ pairing.idx < n_lines(pairing.lines)
    /\ LET ls == pairing.lines
           idx == pairing.idx
           target == normalize_single_line(get_reflected_line(ls[idx]))
           best_j == best_match(ls, pairing.used, idx, target)
       IN  IF pairing.used[idx] \/ best_j = -1
           THEN pairing' = [pairing EXCEPT !.idx = idx + 1]
           ELSE pairing' = [pairing EXCEPT
                    !.idx = idx + 1,
                    !.used = mark_used(pairing.used, idx, best_j),
                    !.pairs = Append(pairing.pairs, master_of(ls[idx], ls[best_j])),
                    !.pair_of = Append(pairing.pair_of, <<idx, best_j>>)]
    /\ UNCHANGED <<gvars, ovars, nvars, svars, main_loop, base_triangles, graph, soft,
                   forced, scaling>>

\* if len(pairs) != 5: return lines[:5]; return np.array(pairs)
symmetrize_return ==
    /\ pairing.pc = "loop"
    /\ pairing.idx = n_lines(pairing.lines)
    /\ pairing' = [pairing EXCEPT
            !.pc = "done",
            !.result = symmetrize_result(pairing.lines, pairing.pairs)]
    /\ UNCHANGED <<gvars, ovars, nvars, svars, main_loop, base_triangles, graph, soft,
                   forced, scaling>>

PairNext == symmetrize_begin \/ symmetrize_iteration \/ symmetrize_return

PairSpec == PairInit /\ [][PairNext]_vars

(***************************************************************************)
(* run_soft_symmetry() (soft_symmetry.py)                                  *)
(***************************************************************************)

\* steps = 20000 in the source; the model runs MaxSoftSteps iterations
SoftSteps == MaxSoftSteps

\* T_start = 1.0, T_end = 0.001
SoftTStart == [n |-> 1, d |-> 1]

SoftTEnd == [n |-> 1, d |-> 1000]

\* if best_score >= 26: break
SoftGoal == 26

\* energy = -(score * 1000) + (sym_error * 10).  sym_error is a sum of squared
\* distances between lines, in units of 1 / One^2, and so is the energy.
calculate_energy(score, sym_error) == -(score * 1000 * One * One) + sym_error * 10

\* scores and symmetry errors calculate_energy finds for the loaded lines and
\* for the candidates (the candidate is the current state plus Gaussian noise)
SoftScores == {24, 25, 26}

SymErrors == {0, 1, 5}

\* draws of np.random.rand() by v = -ln(u): u = exp(-1/2), exp(-3), exp(-5)
SoftDraws == { [n |-> 1, d |-> 2], [n |-> 3, d |-> 1], [n |-> 5, d |-> 1] }

\* np.random.rand() < np.exp(-dE / T) for dE >= 0, with v = -ln(u):
\* v * T > dE / One^2, that is (One^2 * v.n)^root * T^root > (dE * v.d)^root.
\* T <= 1 here, so the draw is not below when One^2 * v.n <= dE * v.d; the
\* powers are compared by a quotient and a remainder.
soft_rand_below_exp(v, dE, temp) ==
    LET a == One * One * v.n
        b == dE * v.d
        lhs == Pow(a, temp.root) * temp.n
    IN  IF a <= b THEN FALSE
        ELSE \/ lhs \div temp.d > Pow(b, temp.root)
             \/ (lhs \div temp.d = Pow(b, temp.root) /\ lhs % temp.d # 0)

\* a plausible slip: only improvements are taken, the draw is dropped
soft_accept_greedy(dE, temp, v) == dE < 0

\* if delta < 0 or np.random.rand() < np.exp(-delta / T):
soft_accept(dE, temp, v) == dE < 0 \/ soft_rand_below_exp(v, dE, temp)

\* a state of the search: the lines (named by the iteration that drew them,
\* 0 for the loaded file) with the score and the symmetry error found for them
SoftState(id, score, sym_error) == [id |-> id, score |-> score, sym_error |-> sym_error]

SoftUnset == [id |-> -1, score |-> 0, sym_error |-> 0]

SoftInit ==
    /\ \E score \in SoftScores, sym_error \in SymErrors :
          LET loaded == SoftState(0, score, sym_error)
          IN  soft = [pc |-> "loop", k |-> 0,
                      current_lines |-> loaded,
                      current_energy |-> calculate_energy(score, sym_error),
                      current_score |-> score,
                      best_lines |-> loaded, best_score |-> score,
                      best_sym_lines |-> loaded,
                      best_combined_energy |-> calculate_energy(score, sym_error),
                      candidate |-> SoftUnset, new_energy |-> 0, delta |-> 0,
                      T |-> NoT, rand |-> NoDraw, accepted |-> FALSE,
                      history |-> <<loaded>>,
                      record |-> << >>, final |-> << >>]
    /\ forced = [pc |-> "idle"]

\* one pass of the loop over k
soft_iteration ==
    /\ soft.pc = "loop"
    /\ soft.k < SoftSteps
    /\ \E score \in SoftScores, sym_error \in SymErrors :
        LET temp == Temperature(soft.k, SoftSteps, SoftTStart, SoftTEnd)
            cand == SoftState(soft.k + 1, score, sym_error)
            new_energy == calculate_energy(score, sym_error)
            dE == new_energy - soft.current_energy
        IN  \E v \in (IF dE < 0 THEN {NoDraw} ELSE SoftDraws) :
            LET acc == soft_accept(dE, temp, v)
                record_score == acc /\ score > soft.best_score
                goal == record_score /\ score >= SoftGoal
                better_energy == acc /\ ~ goal /\ new_energy < soft.best_combined_energy
            IN  soft' = [soft EXCEPT
                    !.pc = IF goal THEN "break" ELSE "loop",
                    !.k = IF goal THEN @ ELSE @ + 1,
                    !.candidate = cand, !.new_energy = new_energy, !.delta = dE,
                    !.T = temp, !.rand = v, !.accepted = acc,
                    !.current_lines = IF acc THEN cand ELSE @,
                    !.current_energy = IF acc THEN new_energy ELSE @,
                    !.current_score = IF acc THEN score ELSE @,
                    !.best_score = IF record_score THEN score ELSE @,
                    !.best_lines = IF record_score THEN cand ELSE @,
                    !.record = IF record_score THEN [score |-> score, lines |-> cand] ELSE @,
                    !.best_combined_energy = IF better_energy THEN new_energy ELSE @,
                    !.best_sym_lines = IF better_energy THEN cand ELSE @,
                    !.history = IF acc THEN Append(@, cand) ELSE @]
    /\ UNCHANGED <<gvars, ovars, nvars, svars, main_loop, base_triangles, graph, forced,
                   pairing, scaling>>

\* after the loop (budget used up, or break): tris = find_triangles() of
\* best_sym_lines; soft_symmetry_final.json is written
soft_final ==
    /\ \/ soft.pc = "break"
       \/ (soft.pc = "loop" /\ soft.k = SoftSteps)
    /\ soft' = [soft EXCEPT
            !.pc = "done",
            !.final = [score |-> soft.best_sym_lines.score, lines |-> soft.best_sym_lines]]
    /\ UNCHANGED <<gvars, ovars, nvars, svars, main_loop, base_triangles, graph, forced,
                   pairing, scaling>>

(***************************************************************************)
(* SymmetricOptimizer(master_lines).optimize(steps) (force_symmetry.py)    *)
(***************************************************************************)

\* steps of optimize; the model runs MaxForcedSteps iterations
ForcedSteps == MaxForcedSteps

\* count = len(KobonSolver(get_full_state(master_lines)).find_triangles())
symmetric_objective(master) == Len(find_triangles(get_full_state(master)))

\* T = 0.5, multiplied by alpha = 0.995 = 199 / 200 after every iteration and
\* kept at 0.001 from below.  T is kept by the number e of multiplications
\* (T = 199^e / (2 * 200^e)) or as floored (T = 0.001).
ForcedT0 == [floored |-> FALSE, e |-> 0]

\* the value of T as a fraction
ForcedTValue(t) ==
    IF t.floored THEN [n |-> 1, d |-> 1000]
    ELSE [n |-> Pow(199, t.e), d |-> 2 * Pow(200, t.e)]

\* T *= alpha; if T < 0.001: T = 0.001.
\* 199^e / (2 * 200^e) < 1 / 1000  <=>  199^e < 200^e / 500
cool(t) ==
    IF t.floored THEN t
    ELSE IF Pow(199, t.e + 1) < CeilDiv(Pow(200, t.e + 1), 500)
         THEN [floored |-> TRUE, e |-> t.e + 1]
         ELSE [floored |-> FALSE, e |-> t.e + 1]

\* np.random.rand() < np.exp(dl / T) for dl <= 0, with v = -ln(u): v * T > -dl
forced_rand_below_exp(v, dl, t) ==
    v.n * ForcedTValue(t).n > (-dl) * v.d * ForcedTValue(t).d

\* if score > current_score or np.random.rand() < np.exp((score - current_score) / T):
forced_accept(score, cur, t, v) ==
    score > cur \/ forced_rand_below_exp(v, score - cur, t)

\* candidate = current_master + noise; candidate[k] = normalize_single_line(candidate[k])
forced_candidate(current, noise) ==
    [r \in DOMAIN current |->
        normalize_single_line(<<current[r][1] + noise[r][1], current[r][2] + noise[r][2],
                                current[r][3] + noise[r][3]>>)]

\* draws of the noise matrix: all zero, the offset c of one line moved by
\* OffsetStep units either way, or the normal of one line doubled (which the
\* normalization undoes, halving c)
ForcedNoises(current) ==
    LET zero == [r \in DOMAIN current |-> <<0, 0, 0>>]
    IN  {zero}
        \cup { [zero EXCEPT ![r] = <<0, 0, sg * OffsetStep>>] : r \in DOMAIN current, sg \in {-1, 1} }
        \cup { [zero EXCEPT ![r] = <<current[r][1], current[r][2], 0>>] : r \in DOMAIN current }

\* the master lines handed to SymmetricOptimizer: 3x + 4y = 0 and x = 0 or
\* 5x + 16 = 0 (in units of 1 / One), whose mirror images complete the state
ForcedMasters ==
    { [r \in 0..1 |-> IF r = 0 THEN <<3, 4, 0>> ELSE <<5, 0, c>>] : c \in {0, OffsetStep} }

ForcedUnset == << >>

ForcedStart(master_lines) ==
    [pc |-> "loop", step |-> 0,
     master_lines |-> master_lines,
     current_master |-> master_lines,
     current_score |-> symmetric_objective(master_lines),
     best_master |-> master_lines,
     best_score |-> symmetric_objective(master_lines),
     candidate |-> ForcedUnset, score |-> 0,
     T |-> ForcedT0, T_used |-> ForcedT0, rand |-> NoDraw, accepted |-> FALSE,
     history |-> << [master |-> master_lines, score |-> symmetric_objective(master_lines)] >>,
     result |-> << >>]

\* one pass of the loop of optimize
forced_iteration ==
    /\ forced.pc = "loop"
    /\ forced.step < ForcedSteps
    /\ \E noise \in ForcedNoises(forced.current_master) :
        LET cand == forced_candidate(forced.current_master, noise)
            score == symmetric_objective(cand)
        IN  \E v \in (IF score > forced.current_score THEN {NoDraw} ELSE SoftDraws) :
            LET acc == forced_accept(score, forced.current_score, forced.T, v)
                record_score == acc /\ score > forced.best_score
            IN  forced' = [forced EXCEPT
                    !.step = @ + 1,
                    !.candidate = cand, !.score = score, !.rand = v, !.accepted = acc,
                    !.current_master = IF acc THEN cand ELSE @,
                    !.current_score = IF acc THEN score ELSE @,
                    !.best_score = IF record_score THEN score ELSE @,
                    !.best_master = IF record_score THEN cand ELSE @,
                    !.T_used = forced.T,
                    !.T = cool(@),
                    !.history = IF acc THEN Append(@, [master |-> cand, score |-> score]) ELSE @]
    /\ UNCHANGED <<gvars, ovars, nvars, svars, main_loop, base_triangles, graph, soft,
                   pairing, scaling>>

\* return best_master, best_score
forced_return ==
    /\ forced.pc = "loop"
    /\ forced.step = ForcedSteps
    /\ forced' = [forced EXCEPT !.pc = "done",
                                !.result = <<forced.best_master, forced.best_score>>]
    /\ UNCHANGED <<gvars, ovars, nvars, svars, main_loop, base_triangles, graph, soft,
                   pairing, scaling>>

(***************************************************************************)
(* The two symmetry scripts: one of them runs                              *)
(***************************************************************************)

SymInit ==
    /\ \/ SoftInit
       \/ (soft = [pc |-> "idle"] /\ \E m \in ForcedMasters : forced = ForcedStart(m))
    /\ GeoIdle /\ OptIdle /\ NormIdle /\ SaveIdle
    /\ MainIdle /\ AppendIdle /\ GraphIdle /\ PairingIdle /\ ScalingIdle

SymNext == soft_iteration \/ soft_final \/ forced_iteration \/ forced_return

SymSpec == SymInit /\ [][SymNext]_vars

(***************************************************************************)
(* Claims about Optimizer.optimize (checked under Spec / FairSpec)         *)
(***************************************************************************)

InLoopOrDone == pc \in {"loop", "done"}

\* an iteration of the loop is the step that advances i
IterationStep == pc = "loop" /\ i' = i + 1

\* u < exp(dl / T) for dl <= 0, stated on v = -ln(u): v * T > -dl, compared
\* through the root-th powers
DrawBelowExp(v, dl, temp) ==
    Pow(v.n, temp.root) * temp.n > Pow(-dl, temp.root) * Pow(v.d, temp.root) * temp.d

\* largest score in the history of accepted states
MaxHistoryScore ==
    CHOOSE m \in { history[h].score : h \in 1..Len(history) } :
        \A h \in 1..Len(history) : history[h].score <= m

\* first place of the history with the largest score
FirstBest ==
    CHOOSE h \in 1..Len(history) :
        /\ history[h].score = MaxHistoryScore
        /\ \A g \in 1..(h - 1) : history[g].score < MaxHistoryScore

\* C1: best_score never decreases from one iteration to the next, and the
\* returned best_score is at least the score of the initial LineSet self.state.
C1_BestScoreMonotone ==
    /\ [][IterationStep => best_score' >= best_score]_vars
    /\ [](InLoopOrDone => best_score >= history[1].score)
    /\ [](pc = "done" => result[2] >= objective(state))

\* a run that found a better state and later accepted a worse one
C1_Witness ==
    /\ pc = "done"
    /\ best_score > history[1].score
    /\ current_score < best_score
    /\ accepted

\* C2: in every iteration the candidate is accepted (it becomes the current
\* state) exactly when delta > 0, or delta <= 0 and the draw u is below
\* exp(delta / T); with delta > 0 no draw is made.
C2_MetropolisRule ==
    (InLoopOrDone /\ i >= 1) =>
        /\ delta = candidate_score - history[Len(history) - (IF accepted THEN 1 ELSE 0)].score
        /\ accepted <=> (delta > 0 \/ (delta <= 0 /\ DrawBelowExp(rand, delta, T)))
        /\ delta > 0 <=> rand = NoDraw
        /\ accepted => /\ current_state = candidate_state
                       /\ current_score = candidate_score

\* a worse candidate was accepted on a draw
C2_Witness ==
    /\ InLoopOrDone
    /\ i >= 1
    /\ delta < 0
    /\ accepted
    /\ current_state = candidate_state

\* C3 (as claimed): every candidate that is evaluated is normalized, and so
\* are the current and the best LineSet at every iteration and on return.
C3_CandidatesNormalized ==
    InLoopOrDone =>
        /\ i >= 1 => \A k \in DOMAIN candidate_state : IsNormalized(candidate_state[k])
        /\ \A k \in DOMAIN current_state : IsNormalized(current_state[k])
        /\ \A k \in DOMAIN best_state : IsNormalized(best_state[k])

\* C4: on return best_score is the largest score among the initial state and
\* the accepted candidates, best_state is the state that reached it first,
\* and find_triangles on best_state gives best_score triangles.
C4_ReturnedBest ==
    pc = "done" =>
        /\ result = <<best_state, best_score>>
        /\ result[2] = MaxHistoryScore
        /\ result[1] = history[FirstBest].state
        /\ Len(find_triangles(result[1])) = result[2]

\* the best score was reached twice, by two different accepted states
C4_Witness ==
    /\ pc = "done"
    /\ best_score > history[1].score
    /\ \E h \in 1..Len(history) :
          /\ h > FirstBest
          /\ history[h].score = best_score
          /\ history[h].state # best_state

\* C5: an iteration that rejects its candidate leaves current_state,
\* current_score, best_state and best_score as they were.
C5_RejectLeavesState ==
    [][(IterationStep /\ ~ (delta' > 0 \/ DrawBelowExp(rand', delta', T')))
          => UNCHANGED <<current_state, current_score, best_state, best_score>>]_vars

\* a candidate with a different score was rejected
C5_Witness ==
    /\ InLoopOrDone
    /\ i >= 1
    /\ ~ accepted
    /\ candidate_score # current_score
    /\ candidate_state # current_state

\* T1 < T2 and T1 <= T2 for temperatures of the same root
TempLess(t1, t2) == t1.n * t2.d < t2.n * t1.d

TempLeq(t1, t2) == t1.n * t2.d <= t2.n * t1.d

\* the fraction q raised to the power e
FracPow(q, e) == [n |-> Pow(q.n, e), d |-> Pow(q.d, e)]

\* C6 (as claimed): the temperature is T_start at the first iteration and
\* strictly decreases from each iteration to the next, for all parameters
\* with 0 < T_end <= T_start.
C6_StrictlyDecreasing ==
    /\ [][(IterationStep /\ i = 0) => ~ TempLess(T', FracPow(T_start, iterations))
                                      /\ ~ TempLess(FracPow(T_start, iterations), T')]_vars
    /\ [][(IterationStep /\ i >= 1) => TempLess(T', T)]_vars

\* C6 (amended): the temperature of iteration t is
\* T_start * (T_end / T_start)^(t / max_t); it is T_start at the first
\* iteration, never increases, strictly decreases from each iteration to the
\* next exactly when T_end < T_start, and stays above T_end (equal to it
\* only when T_end = T_start).
C6_CoolingSchedule ==
    /\ [][IterationStep =>
            /\ T'.root = iterations
            /\ T'.n * Pow(T_start.d, iterations - i) * Pow(T_end.d, i)
                 = T'.d * Pow(T_start.n, iterations - i) * Pow(T_end.n, i)]_vars
    /\ [][(IterationStep /\ i = 0) => ~ TempLess(T', FracPow(T_start, iterations))
                                      /\ ~ TempLess(FracPow(T_start, iterations), T')]_vars
    /\ [][(IterationStep /\ i >= 1) =>
            /\ TempLeq(T', T)
            /\ TempLess(T', T) <=> TempLess(T_end, T_start)]_vars
    /\ []((InLoopOrDone /\ i >= 1) =>
            /\ TempLeq(FracPow(T_end, iterations), T)
            /\ TempLeq(T, FracPow(T_start, iterations))
            /\ TempLess(T_end, T_start) => TempLess(FracPow(T_end, iterations), T))

\* two iterations ran under a cooling schedule with T_end < T_start
C6_Witness ==
    /\ InLoopOrDone
    /\ i = 2
    /\ TempLess(T_end, T_start)
    /\ TempLess(T, FracPow(T_start, iterations))

\* what is left of the call: the steps optimize can still take
Remaining ==
    IF pc = "constructed" THEN MaxIter + 2
    ELSE IF pc = "loop" THEN (iterations - i) + 1
    ELSE 0

\* C7: optimize terminates, after exactly `iterations` iterations, that is
\* one initial evaluation plus one per iteration; with budget 0 it returns
\* the initial state and its score.  Termination is stated by its variant:
\* the call is never stuck before it returns, every step lowers Remaining,
\* and Remaining is never negative, so the sequential loop reaches "done".
C7_Terminates ==
    /\ [](pc = "done" \/ ENABLED Next)
    /\ [][Remaining' < Remaining]_vars
    /\ [](Remaining >= 0 /\ (Remaining = 0 <=> pc = "done"))
    /\ [](pc = "done" => i = iterations /\ nevals = iterations + 1)
    /\ []((pc = "done" /\ iterations = 0) => result = <<state, history[1].score>>)

\* a run with the full budget returned
C7_Witness ==
    /\ pc = "done"
    /\ iterations = MaxIter
    /\ nevals = MaxIter + 1
    /\ result = <<best_state, best_score>>

\* the arrays the names other than x are bound to
OtherArrays(x) == { refs[y] : y \in DOMAIN refs \ {x} }

\* C19: the current, candidate and best LineSets of optimize are never
\* aliased so that a later step changes an earlier value: the candidate of
\* an iteration is a new array, optimize never modifies self.state and
\* shares it with no local, the best is a copy of its own, and a name that
\* stays bound to its array keeps its contents (no array is written after
\* its creation).
C19_NoAliasing ==
    /\ [][IterationStep =>
            refs'.candidate_state \notin
                {refs.state, refs.current_state, refs.best_state, refs.candidate_state}]_vars
    /\ [][state' = state /\ refs'.state = refs.state]_vars
    /\ [](refs.state \notin OtherArrays("state"))
    /\ [](InLoopOrDone => refs.best_state \notin OtherArrays("best_state"))
    /\ [][(InLoopOrDone /\ refs'.best_state = refs.best_state) => best_state' = best_state]_vars
    /\ [][(InLoopOrDone /\ refs'.current_state = refs.current_state)
            => current_state' = current_state]_vars
    /\ [](refs.current_state = refs.candidate_state => current_state = candidate_state)
    /\ [](pc = "done" => result[1] = best_state)

\* a best was recorded in an earlier iteration and the current state has
\* since moved on to a later, different candidate
C19_Witness ==
    /\ pc = "done"
    /\ refs.best_state = CopyArray(0)
    /\ refs.current_state = SumArray(1)
    /\ refs.candidate_state = refs.current_state
    /\ current_state # best_state
    /\ state # current_state

(***************************************************************************)
(* Claims about KobonSolver (checked under GeoSpec)                        *)
(***************************************************************************)

Triples == { c \in (DOMAIN lines) \X (DOMAIN lines) \X (DOMAIN lines) : c[1] < c[2] /\ c[2] < c[3] }

IsReported(c) == \E t \in 1..Len(triangles) : triangles[t] = c

\* the three vertices the code takes for a triple, from the stored table
Vertices(c) == { points[<<c[1], c[2]>>], points[<<c[2], c[3]>>], points[<<c[3], c[1]>>] }

\* the triple's pairwise intersections are valid and pairwise distinct
WellFormed(c) ==
    /\ mask[<<c[1], c[2]>>] /\ mask[<<c[2], c[3]>>] /\ mask[<<c[3], c[1]>>]
    /\ ~ TooClose(points[<<c[1], c[2]>>], points[<<c[2], c[3]>>])
    /\ ~ TooClose(points[<<c[2], c[3]>>], points[<<c[3], c[1]>>])
    /\ ~ TooClose(points[<<c[3], c[1]>>], points[<<c[1], c[2]>>])

\* line m has a vertex of c strictly below -eps and one strictly above +eps
Separates(m, c) ==
    /\ \E v \in Vertices(c) : BelowNegEps(Eval(lines[m], v))
    /\ \E v \in Vertices(c) : AboveEps(Eval(lines[m], v))

\* line m is within the tolerance at one vertex of c and on one side of the others
Touches(m, c) ==
    /\ \E v \in Vertices(c) : ~ BelowNegEps(Eval(lines[m], v)) /\ ~ AboveEps(Eval(lines[m], v))
    /\ \/ \A v \in Vertices(c) : ~ BelowNegEps(Eval(lines[m], v))
       \/ \A v \in Vertices(c) : ~ AboveEps(Eval(lines[m], v))
    /\ \E v \in Vertices(c) : BelowNegEps(Eval(lines[m], v)) \/ AboveEps(Eval(lines[m], v))

\* C8: a triple with valid, pairwise distinct intersections is reported
\* exactly when no other line has its minimum over the vertices below -eps
\* and its maximum above +eps; a line that only touches does not invalidate.
C8_SeparationTest ==
    gpc = "find_triangles" =>
        \A c \in Triples :
            WellFormed(c) =>
                (IsReported(c) <=> ~ \E m \in DOMAIN lines \ {c[1], c[2], c[3]} : Separates(m, c))

\* a reported triangle with a fourth line touching one of its vertices
C8_Witness ==
    /\ gpc = "find_triangles"
    /\ \E c \in Triples :
          /\ WellFormed(c)
          /\ IsReported(c)
          /\ \E m \in DOMAIN lines \ {c[1], c[2], c[3]} : Touches(m, c)

\* C9: the validity flag of (i, j) is true exactly when i # j and
\* |a_i b_j - b_i a_j| > 1e-10; the diagonal is false and lines with
\* proportional (a, b) are marked non-intersecting.
C9_ValidityFlag ==
    gpc # "constructed" =>
        \A p \in DOMAIN lines, q \in DOMAIN lines :
            LET det == lines[p][1] * lines[q][2] - lines[p][2] * lines[q][1]
            IN  /\ mask[<<p, q>>] <=>
                      (p # q /\ Abs(det) * ParallelTolInvRoot > (One * One) \div ParallelTolInvRoot)
                /\ p = q => ~ mask[<<p, q>>]
                /\ lines[p][1] * lines[q][2] = lines[p][2] * lines[q][1] => ~ mask[<<p, q>>]

\* x = 0 and 2x + 5 = 0 are marked non-intersecting while another pair,
\* of negative determinant, intersects
C9_Witness ==
    /\ gpc = "compute_intersections"
    /\ \E p \in DOMAIN lines, q \in DOMAIN lines :
          /\ lines[p] = <<5, 0, 0>>
          /\ lines[q] = <<10, 0, 25>>
          /\ ~ mask[<<p, q>>]
    /\ \E p \in DOMAIN lines, q \in DOMAIN lines :
          /\ mask[<<p, q>>]
          /\ lines[p][1] * lines[q][2] - lines[p][2] * lines[q][1] < 0

\* C10: for i # j the entries (i, j) and (j, i) have the same validity flag
\* and, when valid, the same intersection point.
C10_Symmetric ==
    gpc # "constructed" =>
        \A p \in DOMAIN lines, q \in DOMAIN lines :
            p # q =>
                /\ mask[<<p, q>>] = mask[<<q, p>>]
                /\ mask[<<p, q>>] =>
                      /\ points[<<p, q>>].xn * points[<<q, p>>].d = points[<<q, p>>].xn * points[<<p, q>>].d
                      /\ points[<<p, q>>].yn * points[<<q, p>>].d = points[<<q, p>>].yn * points[<<p, q>>].d

\* a valid pair whose intersection is off both axes
C10_Witness ==
    /\ gpc = "compute_intersections"
    /\ \E p \in DOMAIN lines, q \in DOMAIN lines :
          /\ p < q
          /\ mask[<<p, q>>]
          /\ mask[<<q, p>>]
          /\ points[<<p, q>>].xn # 0
          /\ points[<<p, q>>].yn # 0
          /\ points[<<q, p>>] = points[<<p, q>>]

\* a point (in the units of a vertex) lies on a line
OnLine(line, v) == line[1] * v.xn + line[2] * v.yn + line[3] * v.d = 0

\* the three lines of c have a common point: the valid intersection of two
\* of them lies on the third
Concurrent(c) ==
    \E p \in {c[1], c[2], c[3]}, q \in {c[1], c[2], c[3]}, r \in {c[1], c[2], c[3]} :
        /\ p # q /\ q # r /\ p # r
        /\ w(lines[p], lines[q]) # 0
        /\ OnLine(lines[r], point(lines, p, q))

\* two of the three vertices the code takes for c are closer than 1e-6
HasCloseVertices(c) ==
    \/ TooClose(points[<<c[1], c[2]>>], points[<<c[2], c[3]>>])
    \/ TooClose(points[<<c[2], c[3]>>], points[<<c[3], c[1]>>])
    \/ TooClose(points[<<c[3], c[1]>>], points[<<c[1], c[2]>>])

\* C11: a triple of lines through one common point is never reported,
\* whatever the other lines are; any triple with two vertices closer than
\* 1e-6 is skipped.
C11_ConcurrentSkipped ==
    gpc = "find_triangles" =>
        \A c \in Triples :
            /\ Concurrent(c) => ~ IsReported(c)
            /\ HasCloseVertices(c) => ~ IsReported(c)

\* x = 0, y = 0, x + y = 0 meet at the origin, all three pairs intersect,
\* and the triple is not in the list although another triple is
C11_Witness ==
    /\ gpc = "find_triangles"
    /\ Len(triangles) >= 1
    /\ \E c \in Triples :
          /\ {lines[c[1]], lines[c[2]], lines[c[3]]} = {<<5, 0, 0>>, <<0, 5, 0>>, <<5, 5, 0>>}
          /\ mask[<<c[1], c[2]>>] /\ mask[<<c[2], c[3]>>] /\ mask[<<c[3], c[1]>>]
          /\ Concurrent(c)
          /\ ~ IsReported(c)

\* C12: every triangle of the returned list is a triple of three distinct
\* line indices in strictly increasing order, and no index set appears twice:
\* the length of the list is the number of distinct triangles.
C12_SortedDistinct ==
    gpc = "find_triangles" =>
        /\ \A t \in 1..Len(triangles) :
              /\ Len(triangles[t]) = 3
              /\ \A x \in 1..3 : triangles[t][x] \in DOMAIN lines
              /\ triangles[t][1] < triangles[t][2]
              /\ triangles[t][2] < triangles[t][3]
        /\ \A t \in 1..Len(triangles), u \in 1..Len(triangles) :
              t # u => {triangles[t][x] : x \in 1..3} # {triangles[u][x] : x \in 1..3}
        /\ Cardinality({ {triangles[t][x] : x \in 1..3} : t \in 1..Len(triangles) })
              = Len(triangles)

\* a list of two triangles was returned
C12_Witness ==
    /\ gpc = "find_triangles"
    /\ Len(triangles) >= 2
    /\ triangles[1] # triangles[2]

\* the fixture of the tests: x = 1, y = 1, x + y = 3
Fixture ==
    [k \in 0..2 |-> IF k = 0 THEN <<5, 0, -5>> ELSE IF k = 1 THEN <<0, 5, -5>> ELSE <<5, 5, -15>>]

Choose3(n) == (n * (n - 1) * (n - 2)) \div 6

\* C14: the score, the length of the returned list, is at most C(N, 3), and
\* 0 for N < 3.
C14_ScoreBound ==
    gpc = "find_triangles" =>
        /\ Len(triangles) <= Choose3(n_lines(lines))
        /\ n_lines(lines) < 3 => triangles = << >>

\* three lines whose score reaches the bound C(3, 3) = 1
C14_Witness ==
    /\ gpc = "find_triangles"
    /\ n_lines(lines) = 3
    /\ Len(triangles) = Choose3(3)

C16_LinesUnchanged == [][lines' = lines]_vars

\* both methods have been called on a LineSet with non-zero offsets
C16_Witness ==
    /\ gpc = "find_triangles"
    /\ points # << >>
    /\ Len(triangles) >= 1
    /\ \E k \in DOMAIN lines : lines[k][3] # 0

\* line m has a = b = 0
Degenerate(m) == lines[m][1] = 0 /\ lines[m][2] = 0

\* C17: a degenerate line (a = b = 0) raises no error; every table entry
\* that involves it is invalid, it is in no reported triangle, and it does
\* not invalidate a triangle of three other lines.
C17_DegenerateLine ==
    gpc # "constructed" =>
        \A m \in DOMAIN lines :
            Degenerate(m) =>
                /\ \A q \in DOMAIN lines : ~ mask[<<m, q>>] /\ ~ mask[<<q, m>>]
                /\ gpc = "find_triangles" =>
                      /\ \A t \in 1..Len(triangles) : m \notin {triangles[t][x] : x \in 1..3}
                      /\ \A c \in Triples :
                            m \notin {c[1], c[2], c[3]} =>
                                /\ ~ Separates(m, c)
                                /\ ( /\ WellFormed(c)
                                     /\ \A o \in DOMAIN lines \ {c[1], c[2], c[3], m} :
                                           ~ Separates(o, c) )
                                   => IsReported(c)

\* a LineSet with a degenerate line and a reported triangle of three others
C17_Witness ==
    /\ gpc = "find_triangles"
    /\ \E m \in DOMAIN lines :
          /\ Degenerate(m)
          /\ lines[m][3] # 0
          /\ \E c \in Triples : m \notin {c[1], c[2], c[3]} /\ IsReported(c)

(***************************************************************************)
(* Claims about the normalization functions (checked under NormSpec)       *)
(***************************************************************************)

\* the first non-zero component of (a, b) is positive
CanonicalSign(line) == line[1] > 0 \/ (line[1] = 0 /\ line[2] > 0)

\* the lines are in ascending order of (a, b, c)
InLexOrder(ls) ==
    \A j \in DOMAIN ls, k \in DOMAIN ls : j < k => ~ LexLess(ls[k], ls[j])

\* C18: normalization is idempotent: normalize_lines, normalize_single_line
\* and canonicalize return a line set that is already in their normalized
\* form (unit (a, b); canonical sign and sorted order where the function
\* imposes them) as it was, and what each returns is a fixed point of it.
C18_Idempotent ==
    /\ npc = "normalize_lines" =>
          /\ (\A k \in DOMAIN nprev : IsNormalized(nprev[k])) => nlines = nprev
          /\ normalize_lines(nlines) = nlines
    /\ npc = "normalize_single_line" =>
          \A k \in DOMAIN nprev :
              /\ (IsNormalized(nprev[k]) /\ CanonicalSign(nprev[k])) => nlines[k] = nprev[k]
              /\ normalize_single_line(nlines[k]) = nlines[k]
    /\ npc = "canonicalize" =>
          /\ ( /\ \A k \in DOMAIN nprev : IsNormalized(nprev[k]) /\ CanonicalSign(nprev[k])
               /\ InLexOrder(nprev) )
             => nlines = nprev
          /\ canonicalize(nlines) = nlines

\* canonicalize was applied to two different lines already in canonical form
C18_Witness ==
    /\ npc = "canonicalize"
    /\ DOMAIN nprev = {0, 1}
    /\ nprev[0] # nprev[1]
    /\ \A k \in DOMAIN nprev : IsNormalized(nprev[k]) /\ CanonicalSign(nprev[k])
    /\ InLexOrder(nprev)
    /\ nlines = nprev

(***************************************************************************)
(* Claims about the persisted records (checked under SaveSpec)             *)
(***************************************************************************)

\* C20 (as claimed): every configuration record a search or refinement
\* script persists contains the line count, the integer score and the list
\* of N lines as (a, b, c) triples.
C20_RecordShape ==
    writer # "none" =>
        /\ {"n_lines", "score", "lines"} \subseteq DOMAIN saved
        /\ saved.score \in Nat
        /\ saved.n_lines = Len(saved.lines)
        /\ \A t \in 1..Len(saved.lines) : Len(saved.lines[t]) = 3

(***************************************************************************)
(* Claims about the parameters of a run (checked under CallSpec)           *)
(***************************************************************************)

\* N >= 3, iterations >= 0, 0 < T_end <= T_start
ValidParameters ==
    /\ n_lines(state) >= 3
    /\ iterations >= 0
    /\ T_end.n > 0
    /\ T_end.n * T_start.d <= T_start.n * T_end.d

\* C21 (as claimed): the parameters are validated before the run: a call
\* with N < 3, iterations < 0 or temperatures outside 0 < T_end <= T_start
\* is not executed (it neither enters the loop nor returns a result).
C21_ParametersValidated == pc \in {"loop", "done"} => ValidParameters

(***************************************************************************)
(* Claims about the runs of main (checked under MainSpec)                  *)
(***************************************************************************)

\* the largest of the best scores of the runs finished so far
MaxRunScore ==
    CHOOSE m \in { main_loop.run_scores[r] : r \in 1..Len(main_loop.run_scores) } :
        \A r \in 1..Len(main_loop.run_scores) : main_loop.run_scores[r] <= m

\* a run of main finishes in this step
RunStep == main_loop.pc = "running" /\ main_loop'.run_idx = main_loop.run_idx + 1

\* C22: across the runs of main the global best score never decreases and
\* after each run is the maximum of the best scores of the runs so far; a
\* configuration is persisted exactly when a run's best score strictly
\* exceeds the previous global best, and the persisted score is the new
\* global best.
C22_GlobalBest ==
    /\ [][main_loop'.global_best_score >= main_loop.global_best_score]_vars
    /\ [](main_loop.run_idx >= 1 => main_loop.global_best_score = MaxRunScore)
    /\ [](Len(main_loop.run_scores) = main_loop.run_idx)
    /\ [][RunStep =>
            LET score == main_loop'.run_scores[main_loop'.run_idx]
            IN  /\ main_loop'.nsaved = main_loop.nsaved + 1
                      <=> score > main_loop.global_best_score
                /\ main_loop'.nsaved \in {main_loop.nsaved, main_loop.nsaved + 1}
                /\ main_loop'.nsaved = main_loop.nsaved + 1 =>
                      /\ writer' = "main"
                      /\ saved'.score = score
                      /\ saved'.score = main_loop'.global_best_score
                      /\ saved'.lines = tolist(main_loop'.global_best_config)
                /\ main_loop'.nsaved = main_loop.nsaved => saved' = saved /\ writer' = writer]_vars
    /\ [][~ RunStep => saved' = saved]_vars

\* the second run improved on the first, after which both were persisted
C22_Witness ==
    /\ main_loop.pc = "done"
    /\ main_loop.run_scores = <<0, 1>>
    /\ main_loop.nsaved = 2
    /\ saved.score = 1

(***************************************************************************)
(* Further claims about Optimizer.optimize (checked under Spec)            *)
(***************************************************************************)

\* C25: a candidate whose score equals the current score (delta = 0) is
\* always accepted, whatever the temperature T > 0 and whatever the draw u
\* of [0, 1): it becomes the current state.
C25_ZeroDeltaAccepted ==
    (InLoopOrDone /\ i >= 1 /\ delta = 0) =>
        /\ rand \in Draws
        /\ T.n > 0 /\ T.d > 0
        /\ accepted
        /\ current_state = candidate_state
        /\ current_score = candidate_score
        /\ history[Len(history)].state = candidate_state

\* a moved candidate of equal score taken at a cooled temperature on the
\* draw closest to 1
C25_Witness ==
    /\ InLoopOrDone
    /\ i >= 2
    /\ delta = 0
    /\ T.n < T.d
    /\ rand = [n |-> 1, d |-> 2]
    /\ Len(history) >= 2
    /\ history[Len(history) - 1].state # candidate_state
    /\ current_state = candidate_state

\* C26: at the end of every iteration (and before the first) best_score is
\* at least current_score, and current_score is the score of current_state.
C26_ScoresConsistent ==
    InLoopOrDone =>
        /\ best_score >= current_score
        /\ current_score = objective(current_state)

\* after an accepted worse candidate the current score is below the best
\* and is still the score of the current state
C26_Witness ==
    /\ InLoopOrDone
    /\ i >= 2
    /\ accepted
    /\ delta < 0
    /\ current_score < best_score
    /\ current_score = objective(current_state)
    /\ current_score # history[1].score

(***************************************************************************)
(* Claim about normalize_lines and find_triangles (checked under ScaleSpec) *)
(***************************************************************************)

\* C24 (as claimed): find_triangles returns the same triangle list for a
\* LineSet before and after normalize_lines.
C24_NormalizationKeepsTriangles ==
    scaling.pc = "done" => scaling.after = scaling.before

\* at the unit scale find_triangles_at is find_triangles
ScaleUnitAgrees ==
    find_triangles_at(scaling.lines, 1) = find_triangles(scaling.lines)

(***************************************************************************)
(* Claim about appending a line (checked under AppendSpec)                 *)
(***************************************************************************)

\* the index of the appended line m in L plus m
AppendedIndex == n_lines(lines) - 1

ContainsAppended(t) == AppendedIndex \in {t[1], t[2], t[3]}

InBase(t) == \E u \in 1..Len(base_triangles) : base_triangles[u] = t

\* C27: appending a line m to a LineSet L creates no triangle among the
\* lines of L: every triangle reported for L plus m that does not contain the
\* index of m is reported for L as well.
C27_AppendCreatesNoTriangle ==
    gpc = "extended" =>
        \A t \in 1..Len(triangles) :
            ~ ContainsAppended(triangles[t]) => InBase(triangles[t])

\* a line appended to a LineSet of MaxBaseN lines leaves a triangle of L
\* reported and forms a new triangle with two lines of L
C27_Witness ==
    /\ gpc = "extended"
    /\ n_lines(lines) = MaxBaseN + 1
    /\ \E t \in 1..Len(triangles) : ~ ContainsAppended(triangles[t])
    /\ \E t \in 1..Len(triangles) : ContainsAppended(triangles[t])
    /\ Len(base_triangles) >= 1

(***************************************************************************)
(* Claim about graph_analyzer.py (checked under GraphSpec)                 *)
(***************************************************************************)

\* the index sets of the triples find_triangles returned
TriangleIndexSets == { {triangles[t][1], triangles[t][2], triangles[t][3]} : t \in 1..Len(triangles) }

\* C28: for every LineSet the validity mask and the points computed by
\* graph_analyzer.compute_intersections equal those of
\* KobonSolver.compute_intersections, and triangle_set holds exactly the index
\* sets of the triples KobonSolver.find_triangles returns.
C28_GraphAnalyzerAgrees ==
    (graph.pc = "done" /\ gpc = "find_triangles") =>
        /\ graph.valid = mask
        /\ graph.points = points
        /\ graph.triangle_set = TriangleIndexSets
        /\ Cardinality(graph.triangle_set) = Len(triangles)

\* both evaluators ran on MaxGraphN lines with a parallel pair, reported a
\* triangle and left out a triple with all pairs crossing
C28_Witness ==
    /\ graph.pc = "done"
    /\ gpc = "find_triangles"
    /\ n_lines(lines) = MaxGraphN
    /\ graph.triangle_set # {}
    /\ \E p \in DOMAIN graph.valid : p[1] # p[2] /\ ~ graph.valid[p]
    /\ \E a \in DOMAIN lines, b \in DOMAIN lines, c \in DOMAIN lines :
          /\ a < b /\ b < c
          /\ graph.valid[<<a, b>>] /\ graph.valid[<<b, c>>] /\ graph.valid[<<a, c>>]
          /\ {a, b, c} \notin graph.triangle_set

(***************************************************************************)
(* Claim about symmetrize_lines (checked under PairSpec)                   *)
(***************************************************************************)

\* the indices that are part of a recorded pair
PairedIndices == { pairing.pair_of[q][r] : q \in 1..Len(pairing.pair_of), r \in 1..2 }

\* no line is used in two pairs, and the used lines are the paired ones
PairsDisjoint ==
    /\ Cardinality(PairedIndices) = 2 * Len(pairing.pair_of)
    /\ \A k \in DOMAIN pairing.used : pairing.used[k] <=> k \in PairedIndices
    /\ Len(pairing.pairs) = Len(pairing.pair_of)

NumLines == n_lines(pairing.lines)

SoftIterated == soft.pc \in {"loop", "break", "done"} /\ soft.candidate # SoftUnset

\* an iteration of SymmetricOptimizer.optimize has been executed
ForcedIterated == forced.pc \in {"loop", "done"} /\ forced.step >= 1

SoftIterationStep == soft.pc = "loop" /\ soft'.pc \in {"loop", "break"}

ForcedIterationStep == forced.pc = "loop" /\ forced'.step = forced.step + 1

\* the current score at the start of the last iteration of optimize
ForcedPrevScore ==
    forced.history[Len(forced.history) - (IF forced.accepted THEN 1 ELSE 0)].score

\* largest score among the initial and the accepted states
SoftMaxScore ==
    CHOOSE m \in { soft.history[h].score : h \in 1..Len(soft.history) } :
        \A h \in 1..Len(soft.history) : soft.history[h].score <= m

ForcedMaxScore ==
    CHOOSE m \in { forced.history[h].score : h \in 1..Len(forced.history) } :
        \A h \in 1..Len(forced.history) : forced.history[h].score <= m

\* C23: the loops of run_soft_symmetry and SymmetricOptimizer.optimize follow
\* the state machine of Optimizer.optimize: a strictly better candidate (lower
\* energy, higher score) is always accepted, a worse or equal one exactly
\* when the draw is below exp(improvement / T), a rejected candidate leaves
\* the current and the best state unchanged, and the recorded best score is
\* the largest score among the initial and the accepted states.
C23_SameStateMachine ==
    /\ [](SoftIterated =>
            /\ soft.delta < 0 => (soft.accepted /\ soft.rand = NoDraw)
            /\ soft.delta >= 0 =>
                    /\ soft.rand \in SoftDraws
                    /\ soft.accepted <=> soft_rand_below_exp(soft.rand, soft.delta, soft.T)
            /\ soft.accepted =>
                    /\ soft.current_lines = soft.candidate
                    /\ soft.current_energy = soft.new_energy
                    /\ soft.current_score = soft.candidate.score)
    /\ [](soft.pc # "idle" =>
            /\ soft.best_score = SoftMaxScore
            /\ soft.best_lines.score = soft.best_score
            /\ soft.current_energy
                  = calculate_energy(soft.current_lines.score, soft.current_lines.sym_error))
    /\ [][(SoftIterationStep /\ ~ soft'.accepted) =>
            /\ soft'.current_lines = soft.current_lines
            /\ soft'.current_energy = soft.current_energy
            /\ soft'.current_score = soft.current_score
            /\ soft'.best_lines = soft.best_lines
            /\ soft'.best_score = soft.best_score
            /\ soft'.best_sym_lines = soft.best_sym_lines
            /\ soft'.best_combined_energy = soft.best_combined_energy]_vars
    /\ [](ForcedIterated =>
            /\ forced.score > ForcedPrevScore => (forced.accepted /\ forced.rand = NoDraw)
            /\ forced.score <= ForcedPrevScore =>
                    /\ forced.rand \in SoftDraws
                    /\ forced.accepted <=>
                            forced_rand_below_exp(forced.rand, forced.score - ForcedPrevScore,
                                                  forced.T_used)
            /\ forced.accepted =>
                    /\ forced.current_master = forced.candidate
                    /\ forced.current_score = forced.score)
    /\ [](forced.pc # "idle" =>
            /\ forced.best_score = ForcedMaxScore
            /\ forced.best_score = symmetric_objective(forced.best_master)
            /\ forced.current_score = symmetric_objective(forced.current_master))
    /\ [][(ForcedIterationStep /\ ~ forced'.accepted) =>
            /\ forced'.current_master = forced.current_master
            /\ forced'.current_score = forced.current_score
            /\ forced'.best_master = forced.best_master
            /\ forced'.best_score = forced.best_score]_vars

\* optimize returned after it accepted a candidate of lower score on a draw,
\* having found a better state before
C23_Witness ==
    /\ forced.pc = "done"
    /\ forced.accepted
    /\ forced.score < ForcedPrevScore
    /\ forced.best_score > forced.current_score
    /\ forced.best_score > forced.history[1].score
    /\ forced.result = <<forced.best_master, forced.best_score>>

\* least energy among the initial and the accepted states
SoftMinEnergy ==
    LET energy(h) == calculate_energy(soft.history[h].score, soft.history[h].sym_error)
    IN  CHOOSE m \in { energy(h) : h \in 1..Len(soft.history) } :
            \A h \in 1..Len(soft.history) : m <= energy(h)

\* C30 (as claimed): when run_soft_symmetry ends, by the budget or by the goal,
\* the lines written to soft_symmetry_final.json are best_sym_lines, a state
\* whose energy is the least among the initial state and all accepted states,
\* the one accepted in the last executed iteration included.
C30_FinalHasLeastEnergy ==
    soft.pc = "done" =>
        /\ soft.final.lines = soft.best_sym_lines
        /\ \E h \in 1..Len(soft.history) : soft.history[h] = soft.best_sym_lines
        /\ calculate_energy(soft.best_sym_lines.score, soft.best_sym_lines.sym_error)
              = SoftMinEnergy

=============================================================================
